---------------------------- MODULE Spec2Model ----------------------------
(***************************************************************************)
(* Verification model of the dragino basic forwarder.                      *)
(*                                                                         *)
(*  - relay binary protocol codec   (src/relay/lora_relay_protocol.c)      *)
(*  - SX126x HAL transmit wait loop (src/onehub/libhub/lorahub_hal.c)      *)
(*  - per-RF-chain JIT queue        (jitqueue.c is not part of the source  *)
(*                                   tree; modelled from spec.md 4.2)      *)
(*                                                                         *)
(* Bytes are naturals 0..255, 32-bit words naturals 0..2^32-1; shifts and  *)
(* masks are written with \div, * and %.                                   *)
(***************************************************************************)
EXTENDS Integers, Sequences, FiniteSets, TLC

VARIABLES
    host_big_endian,  \* byte order of the host the codec was built for
    rl_pc,            \* relay codec: "idle" | "built" | "rejected" | "wire" | "unpacked"
    rl_kind,          \* kind of the packet the caller built
    rl_pkt,           \* the packet struct handed to pack_X_packet
    rl_packed,        \* result of pack_X_packet: [ok, buffer, out_len]
    rl_rx,            \* bytes handed to unpack_X_packet
    rl_src,           \* where rl_rx comes from: "none" | "pack" | "raw"
    rl_unp_kind,      \* which unpack_X_packet was applied to rl_rx
    rl_unpacked       \* result of unpack_X_packet: [ok, packet]

relayVars == <<host_big_endian, rl_pc, rl_kind, rl_pkt, rl_packed, rl_rx,
               rl_src, rl_unp_kind, rl_unpacked>>

VARIABLES
    is_started,       \* lorahub_hal.c: static bool is_started
    rx_status,        \* lorahub_hal.c: static uint8_t rx_status
    tx_status,        \* lorahub_hal.c: static uint8_t tx_status
    inst_cnt,         \* the free-running microsecond counter sx126x_get_instcnt reads
    snd_pc,           \* sx126x_send: "idle" | "wait" | "set_tx" | "irq_wait"
    snd_pkt,          \* sx126x_send: the lgw_pkt_tx_s fields the function reads
    tcxo_startup_time_in_tick,  \* what the board support package reports
    count_us_now,     \* sx126x_send: local count_us_now
    snd_diff,         \* sx126x_send: (int32_t)(count_us - count_us_now) of the last test
    snd_waits,        \* sx126x_send: iterations of the wait-for-target loop so far
    snd_polls,        \* sx126x_send: iterations of the wait-for-TX_DONE loop so far
    snd_flags,        \* sx126x_send: [tx_done, tx_timeout], the two local flags
    snd_calls,        \* number of sx126x_send calls so far
    snd_ret,          \* return value of the last sx126x_send call
    rxrf_conf,        \* static rxrf_conf: [freq_hz, tx_enable]
    rxif_conf,        \* static rxif_conf: [modulation, bandwidth, datarate, coderate]
    ctl_ret,          \* the last call other than sx126x_send: [fn, ret, code]
    radio_used        \* whether the last call entered went as far as the radio

VARIABLES
    jit_queue,        \* one RF chain's JIT queue: entries in order of target
    jit_now,          \* the concentrator counter the JIT operations are called with
    tx_start_delay,   \* the chain's TX start delay added to the prepare margin
    jit_last,         \* the last JIT operation: [op, job, now, result, before]
    jit_ops           \* number of JIT operations so far

jitVars == <<jit_queue, jit_now, tx_start_delay, jit_last, jit_ops>>

halVars == <<is_started, rx_status, tx_status, inst_cnt, snd_pc, snd_pkt,
             tcxo_startup_time_in_tick, count_us_now, snd_diff, snd_waits,
             snd_polls, snd_flags, snd_calls, snd_ret, rxrf_conf, rxif_conf, ctl_ret,
             radio_used>>

VARIABLES
    rx_list,          \* gw_s.rxpkts_list: reception batches, newest first
    rx_seq,           \* number of batches RX ingest has published
    rx_drops,         \* RX ingest: drop counter
    rx_now,           \* arrival clock, in milliseconds
    rx_lock,          \* holder of the reception list mutex: a service, or 0
    serv,             \* serv_s per service: [stamp, enabled]
    wk,               \* uplink worker per service: [pc, pos, walk, snap]
    fwd               \* per service: the batches emitted to its peer, in order

recvVars == <<rx_list, rx_seq, rx_drops, rx_now, rx_lock, serv, wk, fwd>>

VARIABLES
    flt_mode,         \* serv_s.filter: the filter_e of each of the five fields
    flt_pkt,          \* the five fields as decoded from one packet
    flt_pc,           \* "ready" | "done"
    flt_pass,         \* verdict of the filter engine on flt_pkt
    flt_decode_failed \* the engine's decode_failed counter

filtVars == <<flt_mode, flt_pkt, flt_pc, flt_pass, flt_decode_failed>>

VARIABLES
    initialized,      \* generate_uplink_id: static bool initialized
    gen_pc,           \* per thread: "idle" | "test" | "srand" | "set" | "rand"
    gen_id,           \* per thread: the id its last call returned, or NoId
    gen_log,          \* srand calls and id returns of the process, in order
    gen_calls         \* number of generate_*_id calls entered so far

genVars == <<initialized, gen_pc, gen_id, gen_log, gen_calls>>

VARIABLES
    EXIT_SIGNAL,      \* the process-wide exit flag log_pull_thread polls
    log_pc,           \* log_pull_thread: "start" | "loop" | "recv" | "returned"
    log_sock,         \* the PULL socket: "none" | "open" | "closed"
    log_queue,        \* messages pushed to inproc://logger and not yet received
    log_out,          \* messages print_log_by_level has printed, in order
    log_pushed        \* number of messages pushed so far

logVars == <<EXIT_SIGNAL, log_pc, log_sock, log_queue, log_out, log_pushed>>

VARIABLES
    mh_pc,            \* MHDR: "ready" | "parsed" | "rebuilt" | "built" | "reparsed"
    mh_byte,          \* the header byte handed to parse_mhdr
    mh_args,          \* the three arguments handed to build_mhdr
    mh_fields,        \* the three fields parse_mhdr stored
    mh_built          \* the byte build_mhdr returned

mhdrVars == <<mh_pc, mh_byte, mh_args, mh_fields, mh_built>>

VARIABLES
    irq_fired,        \* lorahub_hal_rx.c: static volatile bool irq_fired
    flag_rx_done,     \* lorahub_hal_rx.c: static bool flag_rx_done
    flag_rx_crc_error,\* lorahub_hal_rx.c: static bool flag_rx_crc_error
    flag_rx_timeout,  \* lorahub_hal_rx.c: static bool flag_rx_timeout
    radio_irq,        \* the interrupt bits pending in the radio's status register
    gp_pc,            \* sx126x_radio_get_pkt: "idle" | "test" | "clear" | "read" | "flags"
    gp_out,           \* its last results: [ret, status, size, irq_received]
    gp_quiet,         \* the call began after a packet, nothing pending, nothing raised since
    gp_crc,           \* a CRC_ERROR interrupt was raised and no packet reported since
    gp_irqs,          \* number of RX_DONE / CRC_ERROR interrupts raised so far
    gp_events,        \* number of interrupts of any kind raised so far
    gp_pkts,          \* number of calls that returned 1 so far
    gp_calls          \* number of sx126x_radio_get_pkt calls so far

rxirqVars == <<irq_fired, flag_rx_done, flag_rx_crc_error, flag_rx_timeout,
               radio_irq, gp_pc, gp_out, gp_quiet, gp_crc, gp_irqs, gp_events,
               gp_pkts, gp_calls>>

\* what the operations of one subsystem leave alone
notRelayVars == <<halVars, jitVars, recvVars, filtVars, genVars, logVars,
                 mhdrVars, rxirqVars>>
notHalVars   == <<relayVars, jitVars, recvVars, filtVars, genVars, logVars,
                 mhdrVars, rxirqVars>>
notJitVars   == <<relayVars, halVars, recvVars, filtVars, genVars, logVars,
                 mhdrVars, rxirqVars>>
notRecvVars  == <<relayVars, halVars, jitVars, filtVars, genVars, logVars,
                 mhdrVars, rxirqVars>>
notFiltVars  == <<relayVars, halVars, jitVars, recvVars, genVars, logVars,
                 mhdrVars, rxirqVars>>
notGenVars   == <<relayVars, halVars, jitVars, recvVars, filtVars, logVars,
                 mhdrVars, rxirqVars>>
notLogVars   == <<relayVars, halVars, jitVars, recvVars, filtVars, genVars,
                 mhdrVars, rxirqVars>>
notMhdrVars  == <<relayVars, halVars, jitVars, recvVars, filtVars, genVars,
                 logVars, rxirqVars>>
notRxIrqVars == <<relayVars, halVars, jitVars, recvVars, filtVars, genVars,
                 logVars, mhdrVars>>

---------------------------------------------------------------------------
(* Fixed-width integer helpers                                             *)

U8(x)  == x % 256
U16(x) == x % 65536

\* (uint8_t) of an int8_t value
U8ofI8(v) == (v + 256) % 256
\* (int8_t) of a byte
I8ofU8(b) == IF b >= 128 THEN b - 256 ELSE b

(* A uint32_t is kept as its two 16-bit halves [hi, lo]: the model         *)
(* checker's own integers are 32-bit signed and cannot hold 2^32 - 1.      *)
W32(hi, lo) == [hi |-> hi, lo |-> lo]

\* the uint32_t of a natural below 2^31
U32ofNat(n) == W32(n \div 65536, n % 65536)

\* byte n (0 = least significant) of a 32-bit word: (v >> 8n) & 0xFF
ByteOf(v, n) ==
    CASE n = 0 -> v.lo % 256
      [] n = 1 -> v.lo \div 256
      [] n = 2 -> v.hi % 256
      [] n = 3 -> v.hi \div 256

\* the 32-bit word with bytes b3 (most significant) .. b0
Word32(b3, b2, b1, b0) == W32(b3 * 256 + b2, b1 * 256 + b0)

\* a - b in uint32_t arithmetic (modulo 2^32)
U32Sub(a, b) ==
    LET borrow == IF a.lo < b.lo THEN 1 ELSE 0
    IN W32((a.hi - b.hi - borrow + 131072) % 65536, (a.lo - b.lo + 65536) % 65536)

\* a + b in uint32_t arithmetic (modulo 2^32)
U32Add(a, b) ==
    LET carry == IF a.lo + b.lo >= 65536 THEN 1 ELSE 0
    IN W32((a.hi + b.hi + carry) % 65536, (a.lo + b.lo) % 65536)

\* (int32_t) of a uint32_t: two's complement
S32(w) ==
    IF w.hi >= 32768 THEN (w.hi - 65536) * 65536 + w.lo ELSE w.hi * 65536 + w.lo

---------------------------------------------------------------------------
(* Protocol constants, lora_relay_protocol.h                               *)

MAX_PHY_PAYLOAD_LEN   == 245
MAX_EVENT_PAYLOAD_LEN == 240

LORAWAN_TYPE  == 7
UPLINK_TYPE   == 0
DOWNLINK_TYPE == 1
EVENT_TYPE    == 3

---------------------------------------------------------------------------
(* Byte order helpers, lora_relay_protocol.c:14-44                         *)

is_big_endian == host_big_endian

bswap32(value) ==
    Word32(ByteOf(value, 0), ByteOf(value, 1), ByteOf(value, 2), ByteOf(value, 3))

be_to_host32(value) ==
    IF is_big_endian THEN value ELSE bswap32(value)

host_to_be32(value) == be_to_host32(value)

---------------------------------------------------------------------------
(* MHDR, lora_relay_protocol.c:229-263                                     *)

\* payload_type taken from bits 5..4 instead of bits 4..3
parse_mhdr_typebits(mhdr_byte) ==
    [meta_type    |-> (mhdr_byte \div 32) % 8,
     payload_type |-> (mhdr_byte \div 16) % 4,
     hop_count    |-> mhdr_byte % 8]

\* bits 7..5 not looked at
parse_mhdr_meta_any(mhdr_byte) ==
    [meta_type    |-> 7,
     payload_type |-> (mhdr_byte \div 8) % 4,
     hop_count    |-> mhdr_byte % 8]

\* the fields shifted into place without the masks
build_mhdr_unmasked(meta_type, payload_type, hop_count) ==
    (meta_type * 32 + payload_type * 8 + hop_count) % 256

build_mhdr(meta_type, payload_type, hop_count) ==
    (meta_type % 8) * 32 + (payload_type % 4) * 8 + (hop_count % 8)

parse_mhdr(mhdr_byte) ==
    [meta_type    |-> (mhdr_byte \div 32) % 8,
     payload_type |-> (mhdr_byte \div 8) % 4,
     hop_count    |-> mhdr_byte % 8]


---------------------------------------------------------------------------
(* Field checks and bit-packed fields shared by the three packet kinds     *)

\* payload_len > MAX_..._PAYLOAD_LEN rejects (lines 279, 393, 524; 372, 503, 602)
payload_len_ok_strict(payload_len, cap) == payload_len < cap

payload_len_ok(payload_len, cap) == ~(payload_len > cap)

\* snr < -32 || snr > 31 rejects (line 364)
snr_in_range_loose(snr) == ~(snr < -33 \/ snr > 32)

snr_in_range(snr) == ~(snr < -32 \/ snr > 31)

\* the data rate put in the high nibble of the second byte
pack_id_dr_swapped(id, data_rate) ==
    << (id \div 16) % 256, (data_rate % 16) * 16 + (id % 16) >>

\* the two bytes carrying a 12-bit id and the 4-bit data rate (lines 303-304, 417-418)
pack_id_dr(id, data_rate) ==
    << (id \div 16) % 256, (id % 16) * 16 + (data_rate % 16) >>

\* (data[index] << 4) | ((data[index+1] >> 4) & 0x0F), stored in a uint16_t (lines 355, 477)
unpack_id12_shift8(b_hi, b_lo) == U16(b_hi * 256 + ((b_lo \div 16) % 16))

unpack_id12(b_hi, b_lo) == U16(b_hi * 16 + ((b_lo \div 16) % 16))

\* memcpy(dst, &data[index], n) into an array of `size` bytes
memcpy_into(dst, data, index, n) ==
    [i \in 1..Len(dst) |-> IF i <= n THEN data[index + i] ELSE dst[i]]

Zeros(n) == [i \in 1..n |-> 0]

---------------------------------------------------------------------------
(* Packet structs after init_X_packet, lora_relay_protocol.c:88-107,       *)
(* 156-176; the event struct has no init function and is zeroed likewise   *)

init_uplink_packet ==
    [meta_type |-> LORAWAN_TYPE, payload_type |-> UPLINK_TYPE, hop_count |-> 0,
     uplink_id |-> 0, data_rate |-> 0, rssi |-> 0, snr |-> 0, channel |-> 0,
     phy_payload |-> Zeros(MAX_PHY_PAYLOAD_LEN), payload_len |-> 0]

init_downlink_packet ==
    [meta_type |-> LORAWAN_TYPE, payload_type |-> DOWNLINK_TYPE, hop_count |-> 0,
     dwlink_id |-> 0, data_rate |-> 0, frequency |-> W32(0, 0), tx_power |-> 0,
     delay |-> 0, count_us |-> W32(0, 0), phy_payload |-> Zeros(MAX_PHY_PAYLOAD_LEN), payload_len |-> 0]

init_event_packet ==
    [meta_type |-> LORAWAN_TYPE, payload_type |-> EVENT_TYPE, hop_count |-> 0,
     event_id |-> 0, event_type |-> 0,
     event_payload |-> Zeros(MAX_EVENT_PAYLOAD_LEN), payload_len |-> 0]

\* a failed pack_X_packet: NULL is returned and *out_len is not written
PackNull == [ok |-> FALSE, buffer |-> << >>, out_len |-> 0]

---------------------------------------------------------------------------
(* Uplink, lora_relay_protocol.c:276-377                                   *)

pack_uplink_packet(packet) ==
    IF ~payload_len_ok(packet.payload_len, MAX_PHY_PAYLOAD_LEN) THEN PackNull
    ELSE IF packet.payload_type # UPLINK_TYPE THEN PackNull
    ELSE IF packet.meta_type # LORAWAN_TYPE THEN PackNull
    ELSE
      [ok      |-> TRUE,
       out_len |-> U16(1 + 5 + packet.payload_len),
       buffer  |->
            << build_mhdr(packet.meta_type, packet.payload_type, packet.hop_count) >>
         \o pack_id_dr(packet.uplink_id, packet.data_rate)
         \o << U8ofI8(packet.rssi), U8ofI8(packet.snr), U8(packet.channel) >>
         \o SubSeq(packet.phy_payload, 1, packet.payload_len)]

unpack_uplink_packet(data, packet) ==
    IF Len(data) < 6 THEN [ok |-> FALSE, packet |-> packet]
    ELSE
      LET h  == parse_mhdr(data[1])
          p1 == [packet EXCEPT !.meta_type = h.meta_type,
                               !.payload_type = h.payload_type,
                               !.hop_count = h.hop_count]
      IN
      IF p1.payload_type # UPLINK_TYPE THEN [ok |-> FALSE, packet |-> p1]
      ELSE IF p1.meta_type # LORAWAN_TYPE THEN [ok |-> FALSE, packet |-> p1]
      ELSE
        LET p2 == [p1 EXCEPT !.uplink_id = unpack_id12(data[2], data[3]),
                             !.data_rate = data[3] % 16,
                             !.rssi = I8ofU8(data[4]),
                             !.snr = I8ofU8(data[5])]
        IN
        IF ~snr_in_range(p2.snr) THEN [ok |-> FALSE, packet |-> p2]
        ELSE
          LET p3 == [p2 EXCEPT !.channel = data[6],
                               !.payload_len = U16(Len(data) - 6)]
          IN
          IF ~payload_len_ok(p3.payload_len, MAX_PHY_PAYLOAD_LEN)
          THEN [ok |-> FALSE, packet |-> p3]
          ELSE [ok |-> TRUE,
                packet |-> [p3 EXCEPT !.phy_payload =
                              memcpy_into(p3.phy_payload, data, 6, p3.payload_len)]]

---------------------------------------------------------------------------
(* Downlink, lora_relay_protocol.c:390-508                                 *)

\* the four bytes written for a 32-bit field (lines 421-425, 431-435)
pack_u32(value) ==
    LET v_be == host_to_be32(value)
    IN << ByteOf(v_be, 3), ByteOf(v_be, 2), ByteOf(v_be, 1), ByteOf(v_be, 0) >>

\* the 32-bit field read from four bytes (lines 482-487, 494-499)
unpack_u32(b3, b2, b1, b0) == be_to_host32(Word32(b3, b2, b1, b0))

pack_downlink_packet(packet) ==
    IF ~payload_len_ok(packet.payload_len, MAX_PHY_PAYLOAD_LEN) THEN PackNull
    ELSE IF packet.payload_type # DOWNLINK_TYPE THEN PackNull
    ELSE IF packet.meta_type # LORAWAN_TYPE THEN PackNull
    ELSE
      [ok      |-> TRUE,
       out_len |-> U16(1 + 7 + 4 + packet.payload_len),
       buffer  |->
            << build_mhdr(packet.meta_type, packet.payload_type, packet.hop_count) >>
         \o pack_id_dr(packet.dwlink_id, packet.data_rate)
         \o pack_u32(packet.frequency)
         \o << (packet.tx_power % 16) * 16 + (packet.delay % 16) >>
         \o pack_u32(packet.count_us)
         \o SubSeq(packet.phy_payload, 1, packet.payload_len)]

unpack_downlink_packet(data, packet) ==
    IF Len(data) < 12 THEN [ok |-> FALSE, packet |-> packet]
    ELSE
      LET h  == parse_mhdr(data[1])
          p1 == [packet EXCEPT !.meta_type = h.meta_type,
                               !.payload_type = h.payload_type,
                               !.hop_count = h.hop_count]
      IN
      IF p1.payload_type # DOWNLINK_TYPE THEN [ok |-> FALSE, packet |-> p1]
      ELSE IF p1.meta_type # LORAWAN_TYPE THEN [ok |-> FALSE, packet |-> p1]
      ELSE
        LET p2 == [p1 EXCEPT !.dwlink_id = unpack_id12(data[2], data[3]),
                             !.data_rate = data[3] % 16,
                             !.frequency = unpack_u32(data[4], data[5], data[6], data[7]),
                             !.tx_power = (data[8] \div 16) % 16,
                             !.delay = data[8] % 16,
                             !.count_us = unpack_u32(data[9], data[10], data[11], data[12]),
                             !.payload_len = U16(Len(data) - 12)]
        IN
        IF ~payload_len_ok(p2.payload_len, MAX_PHY_PAYLOAD_LEN)
        THEN [ok |-> FALSE, packet |-> p2]
        ELSE [ok |-> TRUE,
              packet |-> [p2 EXCEPT !.phy_payload =
                            memcpy_into(p2.phy_payload, data, 12, p2.payload_len)]]

---------------------------------------------------------------------------
(* Event, lora_relay_protocol.c:521-607                                    *)

pack_event_packet(packet) ==
    IF ~payload_len_ok(packet.payload_len, MAX_EVENT_PAYLOAD_LEN) THEN PackNull
    ELSE IF packet.payload_type # EVENT_TYPE THEN PackNull
    ELSE IF packet.meta_type # LORAWAN_TYPE THEN PackNull
    ELSE
      [ok      |-> TRUE,
       out_len |-> U16(1 + 3 + packet.payload_len),
       buffer  |->
            << build_mhdr(packet.meta_type, packet.payload_type, packet.hop_count) >>
         \o << (packet.event_id \div 256) % 256, packet.event_id % 256,
               U8(packet.event_type) >>
         \o SubSeq(packet.event_payload, 1, packet.payload_len)]

unpack_event_packet(data, packet) ==
    IF Len(data) < 4 THEN [ok |-> FALSE, packet |-> packet]
    ELSE
      LET h  == parse_mhdr(data[1])
          p1 == [packet EXCEPT !.meta_type = h.meta_type,
                               !.payload_type = h.payload_type,
                               !.hop_count = h.hop_count]
      IN
      IF p1.payload_type # EVENT_TYPE THEN [ok |-> FALSE, packet |-> p1]
      ELSE IF p1.meta_type # LORAWAN_TYPE THEN [ok |-> FALSE, packet |-> p1]
      ELSE
        LET p2 == [p1 EXCEPT !.event_id = U16(data[2] * 256 + data[3]),
                             !.event_type = data[4],
                             !.payload_len = U16(Len(data) - 4)]
        IN
        IF ~payload_len_ok(p2.payload_len, MAX_EVENT_PAYLOAD_LEN)
        THEN [ok |-> FALSE, packet |-> p2]
        ELSE [ok |-> TRUE,
              packet |-> [p2 EXCEPT !.event_payload =
                            memcpy_into(p2.event_payload, data, 4, p2.payload_len)]]

---------------------------------------------------------------------------
(* Inputs of the relay codec: the packets a caller builds and the byte     *)
(* strings a peer may send.  Each field takes its boundary values, the     *)
(* values of the worked example and one value beyond its wire width.       *)

MetaVals   == {7, 6}
PTypeVals  == {0, 1, 2, 3}
HopVals    == {2, 7, 9}
IdVals     == {0, 2748, 4095, 6844}             \* 0xABC, 0xFFF, 0x1ABC
DrVals     == {5, 15, 21}
RssiVals   == {-80, 127}
SnrVals    == {-33, -32, 7, 31, 32}
ChanVals   == {3, 255}
FreqVals   == {W32(258, 772), W32(13246, 10144), W32(65535, 65535)}
                                                \* 0x01020304, 868100000, 0xFFFFFFFF
PowVals    == {14, 15, 17}
DelayVals  == {1, 15, 16}
CountVals  == {W32(2571, 3085), W32(0, 256), W32(65535, 65280)}
                                                \* 0x0A0B0C0D, 0x100, 0xFFFFFF00
EvIdVals   == {0, 4660, 65535}                  \* 0x1234
EvTypeVals == {1, 4, 255, 260}
PhyLenVals == {0, 2, 245, 246, 300, 65535}
EvLenVals  == {0, 2, 240, 241, 245, 65535}

\* payload bytes: DE AD, then a running pattern
PayloadBytes(n) ==
    [i \in 1..n |-> IF i = 1 THEN 222 ELSE IF i = 2 THEN 173 ELSE (i * 7) % 256]

\* a received byte string of length len with the given MHDR and fifth byte
RawFrame(mhdr, b5, len) ==
    [i \in 1..len |-> IF i = 1 THEN mhdr ELSE IF i = 5 THEN b5 ELSE (i * 11 + 3) % 256]

RawMhdrVals == {226, 234, 250, 242, 194, 2, 10}  \* E2 EA FA F2 C2 02 0A
RawB5Vals   == {223, 224, 31, 32, 128, 127, 7}   \* -33 -32 31 32 -128 127 7
RawLenVals  == {0, 3, 4, 5, 6, 11, 12, 244, 245, 251, 252, 257, 258}

NoPacked   == PackNull
NoUnpacked == [ok |-> FALSE, packet |-> init_uplink_packet]

---------------------------------------------------------------------------
(* Relay codec operations                                                  *)

RelayInit ==
    /\ host_big_endian \in BOOLEAN
    /\ rl_pc = "idle"
    /\ rl_kind = "none"
    /\ rl_pkt = init_uplink_packet
    /\ rl_packed = NoPacked
    /\ rl_rx = << >>
    /\ rl_src = "none"
    /\ rl_unp_kind = "none"
    /\ rl_unpacked = NoUnpacked

\* the caller fills an uplink_packet_t
BuildUplink ==
    /\ rl_pc = "idle"
    /\ \E meta \in MetaVals, ptype \in PTypeVals, hop \in HopVals, id \in IdVals,
          dr \in DrVals, rssi \in RssiVals, snr \in SnrVals, chan \in ChanVals,
          len \in PhyLenVals :
          /\ \/ (meta = LORAWAN_TYPE /\ ptype = UPLINK_TYPE)
             \/ (hop = 2 /\ id = 2748 /\ dr = 5 /\ rssi = -80 /\ snr = 7 /\ chan = 3)
          /\ rl_pkt' = [meta_type |-> meta, payload_type |-> ptype, hop_count |-> hop,
                        uplink_id |-> id, data_rate |-> dr, rssi |-> rssi, snr |-> snr,
                        channel |-> chan,
                        phy_payload |-> PayloadBytes(MAX_PHY_PAYLOAD_LEN),
                        payload_len |-> len]
    /\ rl_kind' = "uplink"
    /\ rl_pc' = "built"
    /\ UNCHANGED <<host_big_endian, rl_packed, rl_rx, rl_src, rl_unp_kind, rl_unpacked>>
    /\ UNCHANGED notRelayVars

\* the caller fills a downlink_packet_t
BuildDownlink ==
    /\ rl_pc = "idle"
    /\ \E meta \in MetaVals, ptype \in PTypeVals, hop \in HopVals, id \in IdVals,
          dr \in DrVals, freq \in FreqVals, pow \in PowVals, delay \in DelayVals,
          cnt \in CountVals, len \in PhyLenVals :
          /\ \/ (meta = LORAWAN_TYPE /\ ptype = DOWNLINK_TYPE
                 /\ (hop = 2 \/ id = 2748) /\ (dr = 5 \/ pow = 14))
             \/ (hop = 2 /\ id = 2748 /\ dr = 5 /\ freq = W32(258, 772) /\ pow = 14
                 /\ delay = 1 /\ cnt = W32(2571, 3085))
          /\ rl_pkt' = [meta_type |-> meta, payload_type |-> ptype, hop_count |-> hop,
                        dwlink_id |-> id, data_rate |-> dr, frequency |-> freq,
                        tx_power |-> pow, delay |-> delay, count_us |-> cnt,
                        phy_payload |-> PayloadBytes(MAX_PHY_PAYLOAD_LEN),
                        payload_len |-> len]
    /\ rl_kind' = "downlink"
    /\ rl_pc' = "built"
    /\ UNCHANGED <<host_big_endian, rl_packed, rl_rx, rl_src, rl_unp_kind, rl_unpacked>>
    /\ UNCHANGED notRelayVars

\* the caller fills an event_packet_t
BuildEvent ==
    /\ rl_pc = "idle"
    /\ \E meta \in MetaVals, ptype \in PTypeVals, hop \in HopVals, id \in EvIdVals,
          type \in EvTypeVals, len \in EvLenVals :
          rl_pkt' = [meta_type |-> meta, payload_type |-> ptype, hop_count |-> hop,
                     event_id |-> id, event_type |-> type,
                     event_payload |-> PayloadBytes(MAX_EVENT_PAYLOAD_LEN),
                     payload_len |-> len]
    /\ rl_kind' = "event"
    /\ rl_pc' = "built"
    /\ UNCHANGED <<host_big_endian, rl_packed, rl_rx, rl_src, rl_unp_kind, rl_unpacked>>
    /\ UNCHANGED notRelayVars

\* pack_X_packet returned r: the buffer goes on the wire, or NULL ends the send
Packed(r) ==
    /\ rl_packed' = r
    /\ rl_rx' = r.buffer
    /\ rl_src' = IF r.ok THEN "pack" ELSE "none"
    /\ rl_pc' = IF r.ok THEN "wire" ELSE "rejected"
    /\ UNCHANGED <<host_big_endian, rl_kind, rl_pkt, rl_unp_kind, rl_unpacked>>
    /\ UNCHANGED notRelayVars

PackUplink ==
    /\ rl_pc = "built" /\ rl_kind = "uplink"
    /\ Packed(pack_uplink_packet(rl_pkt))

PackDownlink ==
    /\ rl_pc = "built" /\ rl_kind = "downlink"
    /\ Packed(pack_downlink_packet(rl_pkt))

PackEvent ==
    /\ rl_pc = "built" /\ rl_kind = "event"
    /\ Packed(pack_event_packet(rl_pkt))

\* a byte string arrives from a peer
Inject ==
    /\ rl_pc = "idle"
    /\ \E mhdr \in RawMhdrVals, b5 \in RawB5Vals, len \in RawLenVals :
          rl_rx' = RawFrame(mhdr, b5, len)
    /\ rl_src' = "raw"
    /\ rl_pc' = "wire"
    /\ UNCHANGED <<host_big_endian, rl_kind, rl_pkt, rl_packed, rl_unp_kind, rl_unpacked>>
    /\ UNCHANGED notRelayVars

Unpacked(kind, r) ==
    /\ rl_unp_kind' = kind
    /\ rl_unpacked' = r
    /\ rl_pc' = "unpacked"
    /\ UNCHANGED <<host_big_endian, rl_kind, rl_pkt, rl_packed, rl_rx, rl_src>>
    /\ UNCHANGED notRelayVars

UnpackUplink ==
    /\ rl_pc = "wire"
    /\ Unpacked("uplink", unpack_uplink_packet(rl_rx, init_uplink_packet))

UnpackDownlink ==
    /\ rl_pc = "wire"
    /\ Unpacked("downlink", unpack_downlink_packet(rl_rx, init_downlink_packet))

UnpackEvent ==
    /\ rl_pc = "wire"
    /\ Unpacked("event", unpack_event_packet(rl_rx, init_event_packet))

RelayNext ==
    \/ BuildUplink \/ BuildDownlink \/ BuildEvent
    \/ PackUplink \/ PackDownlink \/ PackEvent
    \/ Inject
    \/ UnpackUplink \/ UnpackDownlink \/ UnpackEvent

---------------------------------------------------------------------------
(* SX126x HAL, lorahub_hal.c.  Return and status codes: lorahub_hal.h,     *)
(* basic_hal.h                                                             *)

LGW_HAL_SUCCESS == 0
LGW_HAL_ERROR   == -1

IMMEDIATE   == 0
TIMESTAMPED == 1

TX_STATUS_UNKNOWN == 0
TX_OFF       == 1
TX_FREE      == 2
TX_SCHEDULED == 3
TX_EMITTING  == 4

RX_STATUS_UNKNOWN == 0
RX_OFF       == 1
RX_ON        == 2
RX_SUSPENDED == 3

SX126X_RTC_FREQ_IN_HZ == 64000

SX126X_RF_CHAIN_NB == 1

\* 'select' of the status function
TX_STATUS == 1
RX_STATUS == 2

MOD_UNDEFINED == 0
MOD_LORA      == 16
BW_UNDEFINED  == 0
BW_125KHZ     == 4
BW_250KHZ     == 5
BW_500KHZ     == 6
BW_200KHZ     == 13
BW_400KHZ     == 14
CR_LORA_4_8   == 4
DR_UNDEFINED  == 0
DR_LORA_SF7   == 7
DR_LORA_SF12  == 12
CR_UNDEFINED  == 0
CR_LORA_4_5   == 1

\* basic_hal.h:27-29 with BW_125KHZ .. BW_800KHZ = 4, 5, 6, 14, 15,
\* DR_LORA_SF5 .. DR_LORA_SF12 = 5 .. 12, CR_LORA_4_5 .. CR_LORA_4_8 = 1 .. 4
IS_LORA_BW(bw) == bw \in {4, 5, 6, 14, 15}
IS_LORA_DR(dr) == dr \in 5..12
IS_LORA_CR(cr) == cr \in 1..4

FREQ_HZ_SUBGHZ_MIN == 150000000
FREQ_HZ_SUBGHZ_MAX == 960000000

\* which of its three tests makes sx126x_check_lora_mod_params return
\* LGW_HAL_ERROR (lorahub_aux.c:146-162), "none" when it returns at line 164
ModParamsRefusal(freq_hz, bw, cr) ==
    IF freq_hz < FREQ_HZ_SUBGHZ_MIN \/ freq_hz > FREQ_HZ_SUBGHZ_MAX
    THEN "frequency"
    ELSE IF bw # BW_125KHZ /\ bw # BW_250KHZ /\ bw # BW_500KHZ
    THEN "bandwidth"
    ELSE IF cr \notin CR_LORA_4_5..CR_LORA_4_8
    THEN "coderate"
    ELSE "none"

sx126x_check_lora_mod_params(freq_hz, bw, cr) ==
    IF ModParamsRefusal(freq_hz, bw, cr) = "none"
    THEN LGW_HAL_SUCCESS ELSE LGW_HAL_ERROR

\* #define TCXO_STARTUP_TIME_US( tick, freq ) ( ( tick ) * 1000000 / ( freq ) )
TCXO_STARTUP_TIME_US(tick, freq) == (tick * 1000000) \div freq

\* a - b without the wrap of the 32-bit counter
TimeToTarget_nowrap(count_us, now) ==
    (IF count_us.hi >= 16384 THEN 1073741824 ELSE count_us.hi * 65536 + count_us.lo)
    - (IF now.hi >= 16384 THEN 1073741824 ELSE now.hi * 65536 + now.lo)

\* ( int32_t ) ( pkt_data->count_us - count_us_now ), lorahub_hal.c:414
TimeToTarget(count_us, now) == S32(U32Sub(count_us, now))

\* Loop bounds of the model: calls of sx126x_send, iterations of its two loops
MaxSends     == 2
MaxWaitIters == 3
MaxIrqPolls  == 2

\* what wait_ms( 100 ) and wait_ms( 10 ) add to the counter
Wait100Delays == {100000}
Wait10Delays  == {10000}

ClockVals == {W32(65535, 65280), W32(0, 0), W32(32767, 65280)}
                                    \* 0xFFFFFF00, 0, 0x7FFFFF00
\* targets relative to the counter at the call, besides the absolute 0x100
TargetOffsets == {0, 512, 150000}
TcxoTickVals  == {0, 32, 320}       \* 0, 500 and 5000 microseconds

\* rxrf_conf and rxif_conf as initialised, lorahub_hal.c:61-66
RxrfUnset == [freq_hz |-> 0, tx_enable |-> FALSE]
RxifUnset == [modulation |-> MOD_UNDEFINED, bandwidth |-> BW_UNDEFINED,
              datarate |-> << DR_UNDEFINED, DR_UNDEFINED >>, coderate |-> CR_UNDEFINED]

\* the configurations a caller passes in; Null is the NULL pointer
Null == [null |-> TRUE]

RxrfConfs == {[freq_hz |-> 868100000, tx_enable |-> TRUE],
              [freq_hz |-> 868300000, tx_enable |-> FALSE],
              [freq_hz |-> 0, tx_enable |-> TRUE]}

RxifValid == [modulation |-> MOD_LORA, bandwidth |-> BW_125KHZ,
              datarate |-> << DR_LORA_SF7, DR_UNDEFINED >>, coderate |-> CR_LORA_4_5]

RxifConfs == {RxifValid,
              [RxifValid EXCEPT !.datarate = << DR_LORA_SF12, DR_LORA_SF7 >>],
              [RxifValid EXCEPT !.modulation = MOD_UNDEFINED],
              [RxifValid EXCEPT !.datarate = << DR_UNDEFINED, DR_UNDEFINED >>],
              [RxifValid EXCEPT !.datarate = << DR_LORA_SF7, 13 >>],
              [RxifValid EXCEPT !.bandwidth = BW_200KHZ],
              [RxifValid EXCEPT !.bandwidth = BW_400KHZ],
              [RxifValid EXCEPT !.coderate = CR_UNDEFINED]}

\* the out-parameter of sx126x_status before the call
CodeUnset == 255

NoCall == [fn |-> "none", ret |-> LGW_HAL_SUCCESS, code |-> CodeUnset]

Returned(fn, ret) == [fn |-> fn, ret |-> ret, code |-> CodeUnset]

\* flag_tx_done and flag_tx_timeout as declared, lorahub_hal.c:423-424
NoFlags == [tx_done |-> FALSE, tx_timeout |-> FALSE]

\* The statics of the HAL as initialised (lorahub_hal.c:57-59), no call made
\* yet; the counter and the board's TCXO startup time are what they are

HalInit ==
    /\ is_started = FALSE
    /\ rx_status = RX_STATUS_UNKNOWN
    /\ tx_status = TX_STATUS_UNKNOWN
    /\ inst_cnt \in ClockVals
    /\ tcxo_startup_time_in_tick \in TcxoTickVals
    /\ snd_pc = "idle"
    /\ snd_pkt = [tx_mode |-> IMMEDIATE, count_us |-> W32(0, 0)]
    /\ count_us_now = W32(0, 0)
    /\ snd_diff = 0
    /\ snd_waits = 0
    /\ snd_polls = 0
    /\ snd_flags = NoFlags
    /\ snd_calls = 0
    /\ snd_ret = LGW_HAL_SUCCESS
    /\ rxrf_conf = RxrfUnset
    /\ rxif_conf = RxifUnset
    /\ ctl_ret = NoCall
    /\ radio_used = FALSE

\* the HAL as the other specifications leave it: never called
HalIdle ==
    /\ is_started = FALSE
    /\ rx_status = RX_STATUS_UNKNOWN
    /\ tx_status = TX_STATUS_UNKNOWN
    /\ inst_cnt = W32(0, 0)
    /\ tcxo_startup_time_in_tick = 0
    /\ snd_pc = "idle"
    /\ snd_pkt = [tx_mode |-> IMMEDIATE, count_us |-> W32(0, 0)]
    /\ count_us_now = W32(0, 0)
    /\ snd_diff = 0
    /\ snd_waits = 0
    /\ snd_polls = 0
    /\ snd_flags = NoFlags
    /\ snd_calls = 0
    /\ snd_ret = LGW_HAL_SUCCESS
    /\ rxrf_conf = RxrfUnset
    /\ rxif_conf = RxifUnset
    /\ ctl_ret = NoCall
    /\ radio_used = FALSE

\* the HAL once the forwarder has configured it: both setconf calls made,
\* sx126x_start not yet called
HalConfiguredWith(tx_enable) ==
    /\ is_started = FALSE
    /\ rx_status = RX_STATUS_UNKNOWN
    /\ tx_status = TX_STATUS_UNKNOWN
    /\ inst_cnt \in ClockVals
    /\ tcxo_startup_time_in_tick \in TcxoTickVals
    /\ snd_pc = "idle"
    /\ snd_pkt = [tx_mode |-> IMMEDIATE, count_us |-> W32(0, 0)]
    /\ count_us_now = W32(0, 0)
    /\ snd_diff = 0
    /\ snd_waits = 0
    /\ snd_polls = 0
    /\ snd_flags = NoFlags
    /\ snd_calls = 0
    /\ snd_ret = LGW_HAL_SUCCESS
    /\ rxrf_conf = [freq_hz |-> 868100000, tx_enable |-> tx_enable]
    /\ rxif_conf = RxifValid
    /\ ctl_ret = Returned("rxif_setconf", LGW_HAL_SUCCESS)
    /\ radio_used = FALSE

HalConfigured == HalConfiguredWith(TRUE)

\* configured with TX disabled on the RF chain
HalConfiguredTxOff == HalConfiguredWith(FALSE)

\* the HAL once sx126x_start has succeeded with TX enabled, no send made yet
HalRunning ==
    /\ is_started = TRUE
    /\ rx_status = RX_ON
    /\ tx_status = TX_FREE
    /\ inst_cnt \in ClockVals
    /\ tcxo_startup_time_in_tick \in TcxoTickVals
    /\ snd_pc = "idle"
    /\ snd_pkt = [tx_mode |-> IMMEDIATE, count_us |-> W32(0, 0)]
    /\ count_us_now = W32(0, 0)
    /\ snd_diff = 0
    /\ snd_waits = 0
    /\ snd_polls = 0
    /\ snd_flags = NoFlags
    /\ snd_calls = 0
    /\ snd_ret = LGW_HAL_SUCCESS
    /\ rxrf_conf = [freq_hz |-> 868100000, tx_enable |-> TRUE]
    /\ rxif_conf = RxifValid
    /\ ctl_ret = Returned("start", LGW_HAL_SUCCESS)
    /\ radio_used = TRUE

\* the variables of sx126x_send, which the other calls leave alone
sendVars == <<inst_cnt, snd_pc, snd_pkt, tcxo_startup_time_in_tick, count_us_now,
              snd_diff, snd_waits, snd_polls, snd_flags, snd_calls, snd_ret>>

\* sx126x_rxrf_setconf, lorahub_hal.c:156-170
sx126x_rxrf_setconf ==
    /\ snd_pc = "idle"
    /\ \E conf \in RxrfConfs \cup {Null} :
          IF conf = Null \/ is_started = TRUE
          THEN /\ ctl_ret' = Returned("rxrf_setconf", LGW_HAL_ERROR)
               /\ UNCHANGED rxrf_conf
          ELSE /\ rxrf_conf' = conf
               /\ ctl_ret' = Returned("rxrf_setconf", LGW_HAL_SUCCESS)
    /\ radio_used' = FALSE
    /\ UNCHANGED <<is_started, rx_status, tx_status, rxif_conf>>
    /\ UNCHANGED sendVars
    /\ UNCHANGED notHalVars

\* the test of sx126x_rxif_setconf for the running concentrator
RxifRefused_never(started) == FALSE

RxifRefused(started) == started = TRUE

\* sx126x_rxif_setconf, lorahub_hal.c:174-212
sx126x_rxif_setconf ==
    /\ snd_pc = "idle"
    /\ \E conf \in RxifConfs \cup {Null} :
          IF \/ conf = Null
             \/ RxifRefused(is_started)
             \/ IS_LORA_DR(conf.datarate[1]) = FALSE
             \/ (conf.datarate[2] # DR_UNDEFINED /\ IS_LORA_DR(conf.datarate[2]) = FALSE)
             \/ IS_LORA_BW(conf.bandwidth) = FALSE
             \/ IS_LORA_CR(conf.coderate) = FALSE
          THEN /\ ctl_ret' = Returned("rxif_setconf", LGW_HAL_ERROR)
               /\ UNCHANGED rxif_conf
          ELSE /\ rxif_conf' = conf
               /\ ctl_ret' = Returned("rxif_setconf", LGW_HAL_SUCCESS)
    /\ radio_used' = FALSE
    /\ UNCHANGED <<is_started, rx_status, tx_status, rxrf_conf>>
    /\ UNCHANGED sendVars
    /\ UNCHANGED notHalVars

\* sx126x_start, lorahub_hal.c:216-297 (called while no send is in progress).
\* "Check configuration", lorahub_hal.c:225-250
StartConfigMissing(rf, ifc) ==
    \/ rf.freq_hz = 0
    \/ ifc.modulation = MOD_UNDEFINED
    \/ ifc.bandwidth = BW_UNDEFINED
    \/ ifc.coderate = CR_UNDEFINED
    \/ ifc.datarate[1] = DR_UNDEFINED

TxStatusAfterStart_free(tx_enable) == TX_FREE

\* "Update TX status", lorahub_hal.c:283-291
TxStatusAfterStart(tx_enable) == IF tx_enable = FALSE THEN TX_OFF ELSE TX_FREE

\* With a complete configuration the board decides which return is taken: an
\* error of sx126x_connect or sx126x_radio_setup, an error of
\* sx126x_radio_configure_rx (its parameter check, lorahub_hal_rx.c:137-141,
\* or one of its radio calls), or success.
sx126x_start ==
    /\ snd_pc = "idle"
    /\ IF StartConfigMissing(rxrf_conf, rxif_conf)
       THEN /\ ctl_ret' = Returned("start", LGW_HAL_ERROR)
            /\ radio_used' = FALSE
            /\ UNCHANGED <<is_started, rx_status, tx_status>>
       ELSE /\ radio_used' = TRUE
            /\ \/ /\ ctl_ret' = Returned("start", LGW_HAL_ERROR)
                  /\ UNCHANGED <<is_started, rx_status, tx_status>>
               \/ /\ sx126x_check_lora_mod_params(rxrf_conf.freq_hz,
                         rxif_conf.bandwidth, rxif_conf.coderate) # LGW_HAL_SUCCESS
                  /\ rx_status' = RX_OFF
                  /\ ctl_ret' = [fn |-> "start", ret |-> LGW_HAL_ERROR,
                                 code |-> CodeUnset,
                                 refused |-> ModParamsRefusal(rxrf_conf.freq_hz,
                                     rxif_conf.bandwidth, rxif_conf.coderate)]
                  /\ UNCHANGED <<is_started, tx_status>>
               \/ /\ sx126x_check_lora_mod_params(rxrf_conf.freq_hz,
                         rxif_conf.bandwidth, rxif_conf.coderate) = LGW_HAL_SUCCESS
                  /\ rx_status' = RX_OFF
                  /\ ctl_ret' = Returned("start", LGW_HAL_ERROR)
                  /\ UNCHANGED <<is_started, tx_status>>
               \/ /\ sx126x_check_lora_mod_params(rxrf_conf.freq_hz,
                         rxif_conf.bandwidth, rxif_conf.coderate) = LGW_HAL_SUCCESS
                  /\ rx_status' = RX_ON
                  /\ tx_status' = TxStatusAfterStart(rxrf_conf.tx_enable)
                  /\ is_started' = TRUE
                  /\ ctl_ret' = Returned("start", LGW_HAL_SUCCESS)
    /\ UNCHANGED <<rxrf_conf, rxif_conf>>
    /\ UNCHANGED sendVars
    /\ UNCHANGED notHalVars

\* sx126x_stop, lorahub_hal.c:301-314 (called while no send is in progress)
sx126x_stop ==
    /\ snd_pc = "idle"
    /\ is_started' = FALSE
    /\ ctl_ret' = Returned("stop", LGW_HAL_SUCCESS)
    /\ radio_used' = FALSE
    /\ UNCHANGED <<rx_status, tx_status, rxrf_conf, rxif_conf>>
    /\ UNCHANGED sendVars
    /\ UNCHANGED notHalVars

\* the sizes of the array a caller hands to sx126x_receive
MaxPktVals == {0, 1, 2}

\* sx126x_receive, lorahub_hal.c:318-367: max_pkt is not looked at; on a
\* running concentrator pkt_data[0] is cleared (336) and the radio hands over
\* one packet, none, or fails; the statuses stay as they are
sx126x_receive ==
    /\ snd_pc = "idle"
    /\ \E max_pkt \in MaxPktVals :
          IF is_started = FALSE
          THEN /\ ctl_ret' = [fn |-> "receive", ret |-> LGW_HAL_ERROR,
                              code |-> CodeUnset, max_pkt |-> max_pkt, written |-> {}]
               /\ radio_used' = FALSE
          ELSE /\ \E nb \in {-1, 0, 1} :
                     ctl_ret' = [fn |-> "receive", ret |-> nb, code |-> CodeUnset,
                                 max_pkt |-> max_pkt, written |-> {0}]
               /\ radio_used' = TRUE
    /\ UNCHANGED <<is_started, rx_status, tx_status, rxrf_conf, rxif_conf>>
    /\ UNCHANGED sendVars
    /\ UNCHANGED notHalVars

\* what sx126x_status stores in *code
StatusCode_raw(select, started, tx, rx) == IF select = TX_STATUS THEN tx ELSE rx

StatusCode(select, started, tx, rx) ==
    IF select = TX_STATUS
    THEN IF started = FALSE THEN TX_OFF ELSE tx
    ELSE IF started = FALSE THEN RX_OFF ELSE rx

\* sx126x_status, lorahub_hal.c:463-503, for a code pointer that is not NULL
sx126x_status ==
    /\ snd_pc = "idle"
    /\ \E rf_chain \in {0, 1}, select \in {TX_STATUS, RX_STATUS, 3} :
          ctl_ret' =
             IF rf_chain >= SX126X_RF_CHAIN_NB \/ select \notin {TX_STATUS, RX_STATUS}
             THEN [fn |-> "status", ret |-> LGW_HAL_ERROR, code |-> CodeUnset,
                   select |-> select]
             ELSE [fn |-> "status", ret |-> LGW_HAL_SUCCESS,
                   code |-> StatusCode(select, is_started, tx_status, rx_status),
                   select |-> select]
    /\ radio_used' = FALSE
    /\ UNCHANGED <<is_started, rx_status, tx_status, rxrf_conf, rxif_conf>>
    /\ UNCHANGED sendVars
    /\ UNCHANGED notHalVars

SendResult_success(flag_tx_timeout) == LGW_HAL_SUCCESS

\* the return expression of sx126x_send, lorahub_hal.c:458
SendResult(flag_tx_timeout) ==
    IF flag_tx_timeout = FALSE THEN LGW_HAL_SUCCESS ELSE LGW_HAL_ERROR

\* sx126x_send on a stopped concentrator, lorahub_hal.c:376-380
SendNotStarted ==
    /\ snd_pc = "idle" /\ snd_calls < MaxSends
    /\ is_started = FALSE
    /\ \E mode \in {IMMEDIATE, TIMESTAMPED}, off \in TargetOffsets :
          snd_pkt' = [tx_mode |-> mode, count_us |-> U32Add(inst_cnt, U32ofNat(off))]
    /\ snd_calls' = snd_calls + 1
    /\ snd_ret' = LGW_HAL_ERROR
    /\ radio_used' = FALSE
    /\ UNCHANGED <<is_started, rx_status, tx_status, inst_cnt, snd_pc,
                   tcxo_startup_time_in_tick, count_us_now, snd_diff, snd_waits,
                   snd_polls, snd_flags, rxrf_conf, rxif_conf, ctl_ret>>
    /\ UNCHANGED notHalVars

\* sx126x_send up to the wait loop, lorahub_hal.c:382-406, when
\* sx126x_radio_configure_tx succeeds
SendCall ==
    /\ snd_pc = "idle" /\ snd_calls < MaxSends
    /\ is_started = TRUE
    /\ \E mode \in {IMMEDIATE, TIMESTAMPED} :
          \/ \E off \in TargetOffsets :
                snd_pkt' = [tx_mode |-> mode,
                            count_us |-> U32Add(inst_cnt, U32ofNat(off))]
          \/ snd_pkt' = [tx_mode |-> mode, count_us |-> W32(0, 256)]
    /\ snd_calls' = snd_calls + 1
    /\ rx_status' = RX_SUSPENDED
    /\ tx_status' = TX_SCHEDULED
    /\ snd_waits' = 0
    /\ snd_polls' = 0
    /\ snd_flags' = NoFlags
    /\ snd_pc' = "wait"
    /\ radio_used' = TRUE
    /\ UNCHANGED <<is_started, inst_cnt, tcxo_startup_time_in_tick, count_us_now,
                   snd_diff, snd_ret, rxrf_conf, rxif_conf, ctl_ret>>
    /\ UNCHANGED notHalVars

\* sx126x_send when sx126x_radio_configure_tx fails, lorahub_hal.c:382-394
SendConfigureTxFails ==
    /\ snd_pc = "idle" /\ snd_calls < MaxSends
    /\ is_started = TRUE
    /\ \E mode \in {IMMEDIATE, TIMESTAMPED}, off \in TargetOffsets :
          snd_pkt' = [tx_mode |-> mode, count_us |-> U32Add(inst_cnt, U32ofNat(off))]
    /\ snd_calls' = snd_calls + 1
    /\ rx_status' = RX_SUSPENDED
    /\ snd_ret' = LGW_HAL_ERROR
    /\ radio_used' = TRUE
    /\ UNCHANGED <<is_started, tx_status, inst_cnt, snd_pc,
                   tcxo_startup_time_in_tick, count_us_now, snd_diff, snd_waits,
                   snd_polls, snd_flags, rxrf_conf, rxif_conf, ctl_ret>>
    /\ UNCHANGED notHalVars

\* one iteration of the wait-for-target loop, lorahub_hal.c:410-414
SendWait ==
    /\ snd_pc = "wait" /\ snd_waits < MaxWaitIters
    /\ count_us_now' = inst_cnt
    /\ \E d \in Wait100Delays : inst_cnt' = U32Add(inst_cnt, U32ofNat(d))
    /\ snd_diff' = TimeToTarget(snd_pkt.count_us, inst_cnt)
    /\ snd_waits' = snd_waits + 1
    /\ snd_pc' = IF snd_diff' > TCXO_STARTUP_TIME_US(tcxo_startup_time_in_tick,
                                                     SX126X_RTC_FREQ_IN_HZ)
                 THEN "wait" ELSE "set_tx"
    /\ UNCHANGED <<is_started, rx_status, tx_status, snd_pkt,
                   tcxo_startup_time_in_tick, snd_polls, snd_flags, snd_calls, snd_ret,
                   rxrf_conf, rxif_conf, ctl_ret, radio_used>>
    /\ UNCHANGED notHalVars

\* ASSERT_RAL_RC( ral_set_tx( ) ), lorahub_hal.c:417-424
SendSetTx ==
    /\ snd_pc = "set_tx"
    /\ \/ /\ tx_status' = TX_EMITTING
          /\ snd_pc' = "irq_wait"
          /\ UNCHANGED snd_ret
       \/ /\ snd_ret' = LGW_HAL_ERROR       \* the macro returns -1
          /\ snd_pc' = "idle"
          /\ UNCHANGED tx_status
    /\ UNCHANGED <<is_started, rx_status, inst_cnt, snd_pkt,
                   tcxo_startup_time_in_tick, count_us_now, snd_diff, snd_waits,
                   snd_polls, snd_flags, snd_calls, rxrf_conf, rxif_conf, ctl_ret, radio_used>>
    /\ UNCHANGED notHalVars

\* one iteration of the wait-for-TX_DONE loop and, when it ends, the rest of
\* the function, lorahub_hal.c:426-458
SendPollIrq ==
    /\ snd_pc = "irq_wait"
    /\ \/ /\ snd_ret' = LGW_HAL_ERROR       \* ral_get_and_clear_irq_status failed
          /\ snd_pc' = "idle"
          /\ UNCHANGED <<rx_status, tx_status, inst_cnt, snd_polls, snd_flags,
                       count_us_now>>
       \/ \E tx_done \in BOOLEAN, timeout \in BOOLEAN, d \in Wait10Delays :
             /\ inst_cnt' = U32Add(inst_cnt, U32ofNat(d))
             /\ snd_flags' = [tx_done |-> tx_done, tx_timeout |-> timeout]
             /\ IF ~tx_done /\ ~timeout
                THEN /\ snd_polls < MaxIrqPolls
                     /\ snd_polls' = snd_polls + 1
                     /\ UNCHANGED <<rx_status, tx_status, snd_pc, snd_ret,
                                    count_us_now>>
                ELSE /\ count_us_now' = inst_cnt
                     /\ tx_status' = TX_FREE
                     /\ rx_status' = RX_ON
                     /\ snd_ret' = SendResult(timeout)
                     /\ snd_pc' = "idle"
                     /\ UNCHANGED snd_polls
    /\ UNCHANGED <<is_started, snd_pkt, tcxo_startup_time_in_tick,
                   snd_diff, snd_waits, snd_calls, rxrf_conf, rxif_conf, ctl_ret,
                   radio_used>>
    /\ UNCHANGED notHalVars

HalNext ==
    \/ sx126x_start \/ sx126x_stop
    \/ SendNotStarted \/ SendCall \/ SendConfigureTxFails
    \/ SendWait \/ SendSetTx \/ SendPollIrq

\* the calls that return at once: configuration, start and stop, receive,
\* status, and the sends that fail before the wait for the target
HalCtlNext ==
    \/ sx126x_rxrf_setconf \/ sx126x_rxif_setconf
    \/ sx126x_start \/ sx126x_stop
    \/ sx126x_receive \/ sx126x_status
    \/ SendNotStarted \/ SendConfigureTxFails

---------------------------------------------------------------------------
(* JIT queue of one RF chain.  jitqueue.c is not among the sources (only   *)
(* gw_s.tx.jit_queue, gwcfg.h:302, refers to it): the operations follow    *)
(* spec.md 4.2.  Times are microseconds of the 32-bit concentrator counter.*)

MIN_PREPARE_MARGIN   == 1500       \* "typically 1.5 ms"
MIN_GAP_MICROSECONDS == 2000       \* "2 ms"
MAX_SCHEDULE_HORIZON == 5000000    \* "several seconds"
PREPARE_MARGIN       == 1500       \* no value given: taken as MIN_PREPARE_MARGIN
POST_GUARD           == 0          \* no value given

\* Bounds of the model: capacity of the queue, number of enqueue calls
JitQueueMax == 3
MaxEnqueues == 4

\* target - now as a signed 32-bit difference
JitDiff(target, now) == S32(U32Sub(target, now))

\* only the targets of a and b compared, the durations left out
JitOverlap_targets_only(a, b, now) ==
    LET sa == JitDiff(a.target, now)
        sb == JitDiff(b.target, now)
    IN /\ sa < sb + MIN_GAP_MICROSECONDS
       /\ sb < sa + MIN_GAP_MICROSECONDS

\* the occupancy intervals of a and b, each widened by MIN_GAP_MICROSECONDS, meet
JitOverlap(a, b, now) ==
    LET sa == JitDiff(a.target, now)
        sb == JitDiff(b.target, now)
    IN /\ sa < sb + b.duration + POST_GUARD + MIN_GAP_MICROSECONDS
       /\ sb < sa + a.duration + POST_GUARD + MIN_GAP_MICROSECONDS

jit_enqueue_result_late_inclusive(queue, job, now, tsd) ==
    LET diff == JitDiff(job.target, now)
        hits(beacon) == \E i \in 1..Len(queue) :
                           /\ (queue[i].class = "BEACON") = beacon
                           /\ JitOverlap(job, queue[i], now)
    IN CASE job.check = "freq"   -> "TX_FREQ_OUT_OF_RANGE"
         [] job.check = "power"  -> "TX_POWER_UNSUPPORTED"
         [] job.check = "params" -> "TX_PARAMS_INVALID"
         [] OTHER ->
              IF Len(queue) >= JitQueueMax THEN "FULL"
              ELSE IF diff > MAX_SCHEDULE_HORIZON THEN "TOO_EARLY"
              ELSE IF diff <= MIN_PREPARE_MARGIN + tsd THEN "TOO_LATE"
              ELSE IF hits(FALSE) THEN "COLLISION_PACKET"
              ELSE IF hits(TRUE) THEN "COLLISION_BEACON"
              ELSE "OK"

\* enqueue(job, now_us): the result code
jit_enqueue_result(queue, job, now, tsd) ==
    LET diff == JitDiff(job.target, now)
        hits(beacon) == \E i \in 1..Len(queue) :
                           /\ (queue[i].class = "BEACON") = beacon
                           /\ JitOverlap(job, queue[i], now)
    IN CASE job.check = "freq"   -> "TX_FREQ_OUT_OF_RANGE"
         [] job.check = "power"  -> "TX_POWER_UNSUPPORTED"
         [] job.check = "params" -> "TX_PARAMS_INVALID"
         [] OTHER ->
              IF Len(queue) >= JitQueueMax THEN "FULL"
              ELSE IF diff > MAX_SCHEDULE_HORIZON THEN "TOO_EARLY"
              ELSE IF diff < MIN_PREPARE_MARGIN + tsd THEN "TOO_LATE"
              ELSE IF hits(FALSE) THEN "COLLISION_PACKET"
              ELSE IF hits(TRUE) THEN "COLLISION_BEACON"
              ELSE "OK"

\* the job appended at the tail
jit_insert_at_tail(queue, job, now) == Append(queue, job)

\* "On OK, insert in order-by-target"
jit_insert(queue, job, now) ==
    LET k == Cardinality({i \in 1..Len(queue) :
                            JitDiff(queue[i].target, now) <= JitDiff(job.target, now)})
    IN SubSeq(queue, 1, k) \o << job >> \o SubSeq(queue, k + 1, Len(queue))

\* an entry is due once target - now_us <= PREPARE_MARGIN
jit_is_ready_at_target_only(entry, now) == JitDiff(entry.target, now) < 0

jit_is_ready(entry, now) == JitDiff(entry.target, now) <= PREPARE_MARGIN

\* peek_ready(now_us): index of the earliest due entry, 0 for none
jit_peek_ready(queue, now) ==
    LET due == {i \in 1..Len(queue) : jit_is_ready(queue[i], now)}
    IN IF due = {} THEN 0 ELSE CHOOSE i \in due : \A j \in due : i <= j

\* dequeue(entry)
jit_dequeue(queue, i) == SubSeq(queue, 1, i - 1) \o SubSeq(queue, i + 1, Len(queue))

JitJob(target, duration, class, check) ==
    [target |-> target, duration |-> duration, class |-> class, check |-> check]

NoJob == JitJob(W32(0, 0), 0, "NONE", "ok")

\* the counter values the operations are called at
JitNowPoints ==
    {W32(65535, 65280), U32ofNat(0), U32ofNat(490000), U32ofNat(500000),
     U32ofNat(990000), U32ofNat(1000000)}

\* targets given as counter values, and as distances from now
JitTargets ==
    {U32ofNat(500000), U32ofNat(1000000), U32ofNat(2000000), U32ofNat(1005000),
     U32ofNat(1030000)}
JitOffsets == {1499, 1500, 1799, 1800, 5000001}

\* the jobs a service may hand to enqueue at counter value now
JitJobs(now) ==
         {JitJob(t, 1000, "DOWNLINK_CLASS_A", "ok") : t \in JitTargets}
    \cup {JitJob(U32ofNat(1000000), 20000, "DOWNLINK_CLASS_C", "ok")}
    \cup {JitJob(t, 1000, "BEACON", "ok") : t \in {U32ofNat(1005000)}}
    \cup {JitJob(U32Add(now, U32ofNat(d)), 1000, "DOWNLINK_CLASS_A", "ok") :
            d \in JitOffsets}
    \cup {JitJob(U32ofNat(2000000), 1000, "DOWNLINK_CLASS_A", c) :
            c \in {"freq", "power", "params"}}

JitInit ==
    /\ jit_queue = << >>
    /\ \E c \in {<<W32(65535, 65280), 300>>, <<U32ofNat(0), 0>>} :
          /\ jit_now = c[1]
          /\ tx_start_delay = c[2]
    /\ jit_last = [op |-> "none", job |-> NoJob, result |-> "NONE", before |-> << >>]
    /\ jit_ops = 0

JitIdle ==
    /\ jit_queue = << >>
    /\ jit_now = U32ofNat(0)
    /\ tx_start_delay = 0
    /\ jit_last = [op |-> "none", job |-> NoJob, result |-> "NONE", before |-> << >>]
    /\ jit_ops = 0

JitEnqueue ==
    /\ jit_ops < MaxEnqueues
    /\ \E job \in JitJobs(jit_now) :
          LET r == jit_enqueue_result(jit_queue, job, jit_now, tx_start_delay)
          IN /\ jit_queue' = IF r = "OK" THEN jit_insert(jit_queue, job, jit_now)
                             ELSE jit_queue
             /\ jit_last' = [op |-> "enqueue", job |-> job, result |-> r,
                             before |-> jit_queue]
    /\ jit_ops' = jit_ops + 1
    /\ UNCHANGED <<jit_now, tx_start_delay>>
    /\ UNCHANGED notJitVars

JitPeekReady ==
    /\ LET i == jit_peek_ready(jit_queue, jit_now)
       IN jit_last' = [op |-> "peek",
                       job |-> IF i = 0 THEN NoJob ELSE jit_queue[i],
                       result |-> IF i = 0 THEN "NONE" ELSE "READY",
                       before |-> jit_queue]
    /\ UNCHANGED <<jit_queue, jit_now, tx_start_delay, jit_ops>>
    /\ UNCHANGED notJitVars

JitDequeue ==
    /\ \E i \in 1..Len(jit_queue) :
          /\ jit_queue' = jit_dequeue(jit_queue, i)
          /\ jit_last' = [op |-> "dequeue", job |-> jit_queue[i], result |-> "OK",
                          before |-> jit_queue]
    /\ UNCHANGED <<jit_now, tx_start_delay, jit_ops>>
    /\ UNCHANGED notJitVars

\* the concentrator counter advances
JitTick ==
    /\ \E t \in JitNowPoints :
          /\ JitDiff(t, jit_now) > 0
          /\ jit_now' = t
    /\ jit_last' = [op |-> "none", job |-> NoJob, result |-> "NONE", before |-> << >>]
    /\ UNCHANGED <<jit_queue, tx_start_delay, jit_ops>>
    /\ UNCHANGED notJitVars

JitNext == JitEnqueue \/ JitPeekReady \/ JitDequeue \/ JitTick

---------------------------------------------------------------------------
(* Reception list, RX ingest, uplink workers and reclaimer.  Only the data *)
(* structures are among the sources (gwcfg.h:95-101, 135, 141-183); the    *)
(* threads that work on them are not, and follow spec.md 4.3, 4.4, 4.7.    *)

STAMPS_WIDTH  == 8         \* uint8_t stamps, gwcfg.h:97
RECV_STALE_MS == 500       \* "default 500 ms"

\* Bounds of the model: capacity of the reception list (16 by default),
\* batches published, walks of one worker
RECV_LIST_MAX == 2
MaxIngest     == 3
MaxWalks      == 3

\* one tick of the arrival clock, in milliseconds, and the time the clock
\* runs to: a batch is seen fresh, at the threshold and beyond it
RecvTick     == RECV_STALE_MS
RecvClockEnd == RECV_STALE_MS + RecvTick

Services == {1, 2}

\* stamp bit positions the coordinator hands out: inside the bitmap, and
\* over the whole range 0..63 of spec.md 4.7
StampVals     == {0, 7}
StampValsWide == {0, 7, 8, 63}

\* packets in the batch with the given arrival number
NbPktOf(id) == IF id % 2 = 1 THEN 1 ELSE 2

\* every position on the lowest bit
StampMask_bit0(pos) == 1

\* (uint8_t)( 1 << pos ): the bit of a position, as rxpkts_s.stamps holds it
StampMask(pos) == IF pos >= STAMPS_WIDTH THEN 0 ELSE 2 ^ pos

\* ( stamps & mask ) != 0
HasStamp(stamps, pos) ==
    /\ StampMask(pos) # 0
    /\ (stamps \div StampMask(pos)) % 2 = 1

\* stamps = mask
SetStamp_overwrite(stamps, pos) == StampMask(pos)

\* stamps |= mask
SetStamp(stamps, pos) ==
    IF HasStamp(stamps, pos) THEN stamps ELSE (stamps + StampMask(pos)) % 256

EnabledServices == {sv \in Services : serv[sv].enabled}

\* coordinator's rule: every enabled service has stamped b, or b is stale
RecvCovered_by_one(b) == \E sv \in EnabledServices : HasStamp(b.stamps, serv[sv].stamp)

RecvCovered(b) == \A sv \in EnabledServices : HasStamp(b.stamps, serv[sv].stamp)

RecvStaleInclusive(b) == rx_now - b.entry >= RECV_STALE_MS

RecvStale(b) == rx_now - b.entry > RECV_STALE_MS

RecvEligible(b) == RecvCovered(b) \/ RecvStale(b)

RecvRemove(list, ids) ==
    LET Keep(b) == b.id \notin ids IN SelectSeq(list, Keep)

WorkerIdle == [pc |-> "idle", pos |-> 0, walk |-> 0, snap |-> << >>]

RecvInitWith(stamps) ==
    /\ rx_list = << >>
    /\ rx_seq = 0
    /\ rx_drops = 0
    /\ rx_now = 0
    /\ rx_lock = 0
    /\ \E st \in [Services -> stamps] :
          /\ \A a, b \in Services : a < b => st[a] < st[b]
          /\ serv = [sv \in Services |-> [stamp |-> st[sv], enabled |-> TRUE]]
    /\ wk = [sv \in Services |-> WorkerIdle]
    /\ fwd = [sv \in Services |-> << >>]

\* coordinator startup done: each service has its stamp, nothing received yet
RecvInit == RecvInitWith(StampVals)

RecvInitWide == RecvInitWith(StampValsWide)

RecvIdle ==
    /\ rx_list = << >>
    /\ rx_seq = 0
    /\ rx_drops = 0
    /\ rx_now = 0
    /\ rx_lock = 0
    /\ serv = [sv \in Services |-> [stamp |-> sv - 1, enabled |-> TRUE]]
    /\ wk = [sv \in Services |-> WorkerIdle]
    /\ fwd = [sv \in Services |-> << >>]


\* what a full list keeps when a batch is published into it
IngestKeep_older(list) == Tail(list)

IngestKeep(list) == SubSeq(list, 1, Len(list) - 1)

\* RX ingest publishing one non-empty burst (spec.md 4.3): the batch is
\* prepended; at capacity the oldest batch goes and the drop counter counts it
RxIngest ==
    /\ rx_lock = 0
    /\ rx_seq < MaxIngest
    /\ LET new == [id |-> rx_seq + 1, entry |-> rx_now, stamps |-> 0,
                   nb_pkt |-> NbPktOf(rx_seq + 1)]
           n   == Len(rx_list)
       IN IF n >= RECV_LIST_MAX
          THEN /\ rx_list' = << new >> \o IngestKeep(rx_list)
               /\ rx_drops' = rx_drops + 1
          ELSE /\ rx_list' = << new >> \o rx_list
               /\ UNCHANGED rx_drops
    /\ rx_seq' = rx_seq + 1
    /\ UNCHANGED <<rx_now, rx_lock, serv, wk, fwd>>
    /\ UNCHANGED notRecvVars

\* the coordinator's sweep (spec.md 4.7, 2.): every eligible batch is removed
RxReclaim ==
    /\ rx_lock = 0
    /\ LET ids == {rx_list[i].id : i \in {j \in 1..Len(rx_list) : RecvEligible(rx_list[j])}}
       IN /\ ids # {}
          /\ rx_list' = RecvRemove(rx_list, ids)
    /\ UNCHANGED <<rx_seq, rx_drops, rx_now, rx_lock, serv, wk, fwd>>
    /\ UNCHANGED notRecvVars

\* time passes
RxTick ==
    /\ rx_now < RecvClockEnd
    /\ rx_now' = rx_now + RecvTick
    /\ UNCHANGED <<rx_list, rx_seq, rx_drops, rx_lock, serv, wk, fwd>>
    /\ UNCHANGED notRecvVars

\* the coordinator stops a service whose worker is idle (spec.md 4.7, 1.)
ServiceStop ==
    /\ \E sv \in Services :
          /\ serv[sv].enabled
          /\ wk[sv].pc = "idle"
          /\ serv' = [serv EXCEPT ![sv].enabled = FALSE]
    /\ UNCHANGED <<rx_list, rx_seq, rx_drops, rx_now, rx_lock, wk, fwd>>
    /\ UNCHANGED notRecvVars

\* the place in the list of the k-th batch a walk looks at: the walk of 4.4
\* step 2 goes from newest to oldest, and the list is kept newest first
WalkPos_oldest_first(list, k) == Len(list) + 1 - k

WalkPos(list, k) == k

WalkDone(list, k) == k > Len(list)

\* the place in the list of the batch under the cursor of a worker
Cursor(sv) == WalkPos(rx_list, wk[sv].pos)

\* uplink worker, step 2: takes the list mutex when a batch waits for it
WorkerBegin ==
    /\ rx_lock = 0
    /\ \E sv \in Services :
          /\ serv[sv].enabled
          /\ wk[sv].pc = "idle"
          /\ wk[sv].walk < MaxWalks
          /\ \E i \in 1..Len(rx_list) : ~HasStamp(rx_list[i].stamps, serv[sv].stamp)
          /\ rx_lock' = sv
          /\ wk' = [wk EXCEPT ![sv] = [pc |-> "walk", pos |-> 1,
                                       walk |-> @.walk + 1, snap |-> << >>]]
    /\ UNCHANGED <<rx_list, rx_seq, rx_drops, rx_now, serv, fwd>>
    /\ UNCHANGED notRecvVars

\* the stamp bit of the batch under the cursor after the compare-and-swap
WorkerCas_none(stamps, pos) == stamps

WorkerCas(stamps, pos) == SetStamp(stamps, pos)

\* the worker looks at the batch under its cursor: a stamped batch is passed
\* over, an unstamped one gets the stamp bit and is then to be copied
WorkerVisit ==
    /\ \E sv \in Services :
          /\ wk[sv].pc = "walk" /\ rx_lock = sv
          /\ ~WalkDone(rx_list, wk[sv].pos)
          /\ LET i == Cursor(sv) IN
             IF HasStamp(rx_list[i].stamps, serv[sv].stamp)
             THEN /\ wk' = [wk EXCEPT ![sv].pos = @ + 1]
                  /\ UNCHANGED rx_list
             ELSE /\ rx_list' = [rx_list EXCEPT
                                   ![i].stamps = WorkerCas(@, serv[sv].stamp)]
                  /\ wk' = [wk EXCEPT ![sv].pc = "copy"]
    /\ UNCHANGED <<rx_seq, rx_drops, rx_now, rx_lock, serv, fwd>>
    /\ UNCHANGED notRecvVars

\* the worker snapshots the packets of the batch it has just stamped
WorkerCopy ==
    /\ \E sv \in Services :
          /\ wk[sv].pc = "copy" /\ rx_lock = sv
          /\ LET b == rx_list[Cursor(sv)] IN
             wk' = [wk EXCEPT ![sv] =
                       [pc |-> "walk", pos |-> @.pos + 1, walk |-> @.walk,
                        snap |-> Append(@.snap, [id |-> b.id, nb_pkt |-> b.nb_pkt])]]
    /\ UNCHANGED <<rx_list, rx_seq, rx_drops, rx_now, rx_lock, serv, fwd>>
    /\ UNCHANGED notRecvVars

\* end of the walk, steps 3 and 4: the mutex is released and the snapshots
\* are emitted to the peer in the order taken
WorkerEnd ==
    /\ \E sv \in Services :
          /\ wk[sv].pc = "walk" /\ rx_lock = sv
          /\ WalkDone(rx_list, wk[sv].pos)
          /\ rx_lock' = 0
          /\ fwd' = [fwd EXCEPT ![sv] = @ \o wk[sv].snap]
          /\ wk' = [wk EXCEPT ![sv] = [@ EXCEPT !.pc = "idle", !.pos = 0,
                                                !.snap = << >>]]
    /\ UNCHANGED <<rx_list, rx_seq, rx_drops, rx_now, serv>>
    /\ UNCHANGED notRecvVars

RecvNext ==
    \/ RxIngest \/ RxReclaim \/ RxTick \/ ServiceStop
    \/ WorkerBegin \/ WorkerVisit \/ WorkerCopy \/ WorkerEnd

---------------------------------------------------------------------------
(* Filter engine of a service (spec.md 4.5) over serv_s.filter,            *)
(* gwcfg.h:103-107, 150-159                                                 *)

NOFILTER == 0
INCLUDE  == 1
EXCLUDE  == 2

\* the five filters of serv_s.filter
FilterFields == {"fport", "devaddr", "nwkid", "deveui", "joineui"}

\* a field the minimal decode could not get from the packet
NoValue == 0

\* the service's lookup oracle: "is value V present in my list"
FilterListed(field, value) == value = 1

\* what decoding yields: data frames carry DevAddr, NetID and maybe FPort,
\* join requests carry JoinEUI and DevEUI, anything else carries nothing
FilterPackets ==
         {[fport |-> p, devaddr |-> d, nwkid |-> n, deveui |-> NoValue,
           joineui |-> NoValue] : p \in {NoValue, 1, 2}, d \in {1, 2}, n \in {1, 2}}
    \cup {[fport |-> NoValue, devaddr |-> NoValue, nwkid |-> NoValue, deveui |-> e,
           joineui |-> j] : e \in {1, 2}, j \in {1, 2}}
    \cup {[f \in FilterFields |-> NoValue]}

\* one filter on one field, by the values gwcfg.h:151 gives for it: 0 not
\* processed, 1 the packets matching the database are filtered, 2 the packets
\* matching the database are forwarded; a field without value is skipped
\* (spec.md 4.5)
filter_field(mode, field, value) ==
    IF mode = 0 \/ value = NoValue THEN TRUE
    ELSE IF mode = 1 THEN ~FilterListed(field, value)
    ELSE FilterListed(field, value)

\* logical AND across the filters
filter_packet(modes, pkt) ==
    \A f \in FilterFields : filter_field(modes[f], f, pkt[f])

\* a filter that is on met a field without value
filter_decode_failed(modes, pkt) ==
    \E f \in FilterFields : modes[f] # NOFILTER /\ pkt[f] = NoValue

FiltInit ==
    /\ flt_mode \in [FilterFields -> {NOFILTER, INCLUDE, EXCLUDE}]
    /\ flt_pkt \in FilterPackets
    /\ flt_pc = "ready"
    /\ flt_pass = TRUE
    /\ flt_decode_failed = 0

FiltIdle ==
    /\ flt_mode = [f \in FilterFields |-> NOFILTER]
    /\ flt_pkt = [f \in FilterFields |-> NoValue]
    /\ flt_pc = "ready"
    /\ flt_pass = TRUE
    /\ flt_decode_failed = 0

\* the engine run on one packet of a snapshot (spec.md 4.4 step 3, 4.5)
FilterApply ==
    /\ flt_pc = "ready"
    /\ flt_pass' = filter_packet(flt_mode, flt_pkt)
    /\ flt_decode_failed' = flt_decode_failed +
                              (IF filter_decode_failed(flt_mode, flt_pkt) THEN 1 ELSE 0)
    /\ flt_pc' = "done"
    /\ UNCHANGED <<flt_mode, flt_pkt>>
    /\ UNCHANGED notFiltVars

FiltNext == FilterApply

---------------------------------------------------------------------------
(* Relay ids: generate_uplink_id and generate_dwlink_id                    *)
(* (src/relay/lora_relay_protocol.c).  The static flag is read and written *)
(* without any lock, so the steps of two callers interleave freely.        *)

Threads == {1, 2}

MaxIdCalls == 3

RAND_MAX == 2147483647

RandVals == {0, 1, 4095, 4096, 4097, RAND_MAX}

NoId == -1

\* rand() & 0x0FFF, then the cast to uint16_t
IdOfRand(r) == (r % 4096) % 65536

GenInit ==
    /\ initialized = FALSE
    /\ gen_pc = [t \in Threads |-> "idle"]
    /\ gen_id = [t \in Threads |-> NoId]
    /\ gen_log = << >>
    /\ gen_calls = 0

\* a thread enters generate_uplink_id, directly or through generate_dwlink_id
GenCall(t) ==
    /\ gen_pc[t] = "idle"
    /\ gen_calls < MaxIdCalls
    /\ gen_pc' = [gen_pc EXCEPT ![t] = "test"]
    /\ gen_calls' = gen_calls + 1
    /\ UNCHANGED <<initialized, gen_id, gen_log, notGenVars>>

\* if (!initialized)
GenTest(t) ==
    /\ gen_pc[t] = "test"
    /\ gen_pc' = [gen_pc EXCEPT ![t] = IF initialized THEN "rand" ELSE "srand"]
    /\ UNCHANGED <<initialized, gen_id, gen_log, gen_calls, notGenVars>>

\* srand((unsigned int)time(NULL))
GenSrand(t) ==
    /\ gen_pc[t] = "srand"
    /\ gen_log' = Append(gen_log, "srand")
    /\ gen_pc' = [gen_pc EXCEPT ![t] = "set"]
    /\ UNCHANGED <<initialized, gen_id, gen_calls, notGenVars>>

\* initialized = true
GenSet(t) ==
    /\ gen_pc[t] = "set"
    /\ initialized' = TRUE
    /\ gen_pc' = [gen_pc EXCEPT ![t] = "rand"]
    /\ UNCHANGED <<gen_id, gen_log, gen_calls, notGenVars>>

\* return (uint16_t)(rand() & 0x0FFF)
GenReturn(t) ==
    /\ gen_pc[t] = "rand"
    /\ \E r \in RandVals : gen_id' = [gen_id EXCEPT ![t] = IdOfRand(r)]
    /\ gen_log' = Append(gen_log, "id")
    /\ gen_pc' = [gen_pc EXCEPT ![t] = "idle"]
    /\ UNCHANGED <<initialized, gen_calls, notGenVars>>

GenNext ==
    \E t \in Threads :
        \/ GenCall(t)
        \/ GenTest(t)
        \/ GenSrand(t)
        \/ GenSet(t)
        \/ GenReturn(t)

---------------------------------------------------------------------------
(* Logger thread: log_pull_thread (src/fwd/logger.c) and s_recv            *)
(* (src/inc/zhelpers.h).  The socket is created with no receive timeout    *)
(* and zmq_recv is called with flags 0, so the call returns only with a    *)
(* message or with -1 when the call is interrupted or the context ends.    *)

MaxLogPush == 3

LogMsgs == {"[INFO] up", "plain"}

LogInit ==
    /\ EXIT_SIGNAL = FALSE
    /\ log_pc = "start"
    /\ log_sock = "none"
    /\ log_queue = << >>
    /\ log_out = << >>
    /\ log_pushed = 0

\* zmq_socket and zmq_bind; either may fail and the thread returns at once
LogStart ==
    /\ log_pc = "start"
    /\ \/ /\ log_sock' = "open"
          /\ log_pc' = "loop"
       \/ /\ log_sock' \in {"none", "closed"}
          /\ log_pc' = "returned"
    /\ UNCHANGED <<EXIT_SIGNAL, log_queue, log_out, log_pushed, notLogVars>>

\* while (!EXIT_SIGNAL) ... zmq_close(pull_sock); return NULL;
LogTest ==
    /\ log_pc = "loop"
    /\ IF EXIT_SIGNAL
          THEN /\ log_sock' = "closed"
               /\ log_pc' = "returned"
          ELSE /\ log_pc' = "recv"
               /\ UNCHANGED log_sock
    /\ UNCHANGED <<EXIT_SIGNAL, log_queue, log_out, log_pushed, notLogVars>>

\* s_recv returns a message: zmq_recv finds one queued
LogRecv ==
    /\ log_pc = "recv"
    /\ log_queue # << >>
    /\ log_out' = Append(log_out, Head(log_queue))
    /\ log_queue' = Tail(log_queue)
    /\ log_pc' = "loop"
    /\ UNCHANGED <<EXIT_SIGNAL, log_sock, log_pushed, notLogVars>>

\* s_recv returns NULL: zmq_recv returned -1 (interrupted call)
LogRecvNull ==
    /\ log_pc = "recv"
    /\ log_pc' = "loop"
    /\ UNCHANGED <<EXIT_SIGNAL, log_sock, log_queue, log_out, log_pushed,
                   notLogVars>>

\* another thread pushes a log message to inproc://logger
LogPush ==
    /\ log_sock = "open"
    /\ log_pushed < MaxLogPush
    /\ \E m \in LogMsgs : log_queue' = Append(log_queue, m)
    /\ log_pushed' = log_pushed + 1
    /\ UNCHANGED <<EXIT_SIGNAL, log_pc, log_sock, log_out, notLogVars>>

\* the process sets EXIT_SIGNAL to 1
LogSetExit ==
    /\ EXIT_SIGNAL = FALSE
    /\ EXIT_SIGNAL' = TRUE
    /\ UNCHANGED <<log_pc, log_sock, log_queue, log_out, log_pushed,
                   notLogVars>>

\* the steps log_pull_thread takes by itself once it is scheduled
LogThreadStep == LogStart \/ LogTest \/ LogRecv

LogNext ==
    \/ LogStart
    \/ LogTest
    \/ LogRecv
    \/ LogRecvNull
    \/ LogPush
    \/ LogSetExit

---------------------------------------------------------------------------
(* The MHDR pair on its own: build_mhdr and parse_mhdr applied to each     *)
(* other's result (lora_relay_protocol.c:229-263).  meta_type_t and        *)
(* payload_type_t are enums, hop_count is a uint8_t.                       *)

MhdrBytes == 0..255

MhdrMetaVals == {0, 5, 7, 8, 15, 263}
MhdrTypeVals == {0, 1, 2, 3, 4, 7}
MhdrHopVals  == {0, 2, 7, 8, 255}

NoFields == [meta_type |-> 0, payload_type |-> 0, hop_count |-> 0]

MhdrIdle ==
    /\ mh_pc = "ready"
    /\ mh_byte = 0
    /\ mh_args = NoFields
    /\ mh_fields = NoFields
    /\ mh_built = 0

\* a caller holds either a header byte to parse or three fields to build from
MhdrInit ==
    /\ mh_pc = "ready"
    /\ \/ /\ mh_byte \in MhdrBytes
          /\ mh_args = NoFields
       \/ /\ mh_byte = 0
          /\ mh_args \in [meta_type : MhdrMetaVals, payload_type : MhdrTypeVals,
                          hop_count : MhdrHopVals]
    /\ mh_fields = NoFields
    /\ mh_built = 0

\* parse_mhdr(b, &m, &p, &h)
MhdrParse ==
    /\ mh_pc = "ready"
    /\ mh_fields' = parse_mhdr(mh_byte)
    /\ mh_pc' = "parsed"
    /\ UNCHANGED <<mh_byte, mh_args, mh_built, notMhdrVars>>

\* build_mhdr(m, p, h) on the fields just parsed
MhdrRebuild ==
    /\ mh_pc = "parsed"
    /\ mh_built' = build_mhdr(mh_fields.meta_type, mh_fields.payload_type,
                              mh_fields.hop_count)
    /\ mh_pc' = "rebuilt"
    /\ UNCHANGED <<mh_byte, mh_args, mh_fields, notMhdrVars>>

\* build_mhdr(m, p, h)
MhdrBuild ==
    /\ mh_pc = "ready"
    /\ mh_built' = build_mhdr(mh_args.meta_type, mh_args.payload_type,
                              mh_args.hop_count)
    /\ mh_pc' = "built"
    /\ UNCHANGED <<mh_byte, mh_args, mh_fields, notMhdrVars>>

\* parse_mhdr on the byte just built
MhdrReparse ==
    /\ mh_pc = "built"
    /\ mh_fields' = parse_mhdr(mh_built)
    /\ mh_pc' = "reparsed"
    /\ UNCHANGED <<mh_byte, mh_args, mh_built, notMhdrVars>>

MhdrNext == MhdrParse \/ MhdrRebuild \/ MhdrBuild \/ MhdrReparse

---------------------------------------------------------------------------
(* Packet fetch of the SX126x radio: the DIO interrupt handler,            *)
(* radio_irq_process and sx126x_radio_get_pkt                              *)
(* (src/liblora/onehub/lorahub/lorahub_hal_rx.c).  The handler preempts    *)
(* sx126x_radio_get_pkt between any two of its steps.                      *)

STAT_UNDEFINED == 0
STAT_CRC_BAD   == 17
STAT_CRC_OK    == 16

MaxRxIrqs == 3
MaxGetPkt == 3

IrqBits == {"RX_DONE", "CRC_ERROR", "RX_TIMEOUT"}

\* what the radio raises at once: a packet, a packet with a bad CRC, a timeout
IrqEvents == {{"RX_DONE"}, {"RX_DONE", "CRC_ERROR"}, {"RX_TIMEOUT"}}

PktSizes == {1, 255}

\* "Initialize return values", lorahub_hal_rx.c:216-223
GetPktOutInit ==
    [ret |-> 0, status |-> STAT_UNDEFINED, size |-> 0, irq_received |-> FALSE]

\* the status stored for a received packet, lorahub_hal_rx.c:239-246
PktStatus(crc_error) == IF crc_error = TRUE THEN STAT_CRC_BAD ELSE STAT_CRC_OK

RxIrqInit ==
    /\ irq_fired = FALSE
    /\ flag_rx_done = FALSE
    /\ flag_rx_crc_error = FALSE
    /\ flag_rx_timeout = FALSE
    /\ radio_irq = {}
    /\ gp_pc = "idle"
    /\ gp_out = GetPktOutInit
    /\ gp_quiet = FALSE
    /\ gp_crc = FALSE
    /\ gp_irqs = 0
    /\ gp_events = 0
    /\ gp_pkts = 0
    /\ gp_calls = 0

\* the radio raises DIO1 and radio_on_dio_irq runs, lorahub_hal_rx.c:63-67
radio_on_dio_irq ==
    /\ gp_events < MaxRxIrqs
    /\ \E ev \in IrqEvents :
          /\ radio_irq' = radio_irq \cup ev
          /\ gp_irqs' = IF "RX_DONE" \in ev \/ "CRC_ERROR" \in ev
                        THEN gp_irqs + 1 ELSE gp_irqs
    /\ gp_events' = gp_events + 1
    /\ irq_fired' = TRUE
    /\ gp_quiet' = FALSE
    /\ UNCHANGED <<flag_rx_done, flag_rx_crc_error, flag_rx_timeout, gp_pc, gp_out,
                   gp_crc, gp_pkts, gp_calls, notRxIrqVars>>

\* sx126x_radio_get_pkt is entered, lorahub_hal_rx.c:210-223
GetPktCall ==
    /\ gp_pc = "idle"
    /\ gp_calls < MaxGetPkt
    /\ gp_calls' = gp_calls + 1
    /\ gp_quiet' = (gp_out.ret = 1 /\ irq_fired = FALSE)
    /\ gp_out' = GetPktOutInit
    /\ gp_pc' = "test"
    /\ UNCHANGED <<irq_fired, flag_rx_done, flag_rx_crc_error, flag_rx_timeout,
                   radio_irq, gp_crc, gp_irqs, gp_events, gp_pkts, notRxIrqVars>>

\* radio_irq_process: if( irq_fired == true ), lorahub_hal_rx.c:71
IrqTest ==
    /\ gp_pc = "test"
    /\ gp_pc' = IF irq_fired = TRUE THEN "clear" ELSE "flags"
    /\ UNCHANGED <<irq_fired, flag_rx_done, flag_rx_crc_error, flag_rx_timeout,
                   radio_irq, gp_out, gp_quiet, gp_crc, gp_irqs, gp_events,
                   gp_pkts, gp_calls, notRxIrqVars>>

\* radio_irq_process: irq_fired = false, lorahub_hal_rx.c:73
IrqClear ==
    /\ gp_pc = "clear"
    /\ irq_fired' = FALSE
    /\ gp_pc' = "read"
    /\ UNCHANGED <<flag_rx_done, flag_rx_crc_error, flag_rx_timeout, radio_irq,
                   gp_out, gp_quiet, gp_crc, gp_irqs, gp_events, gp_pkts, gp_calls,
                   notRxIrqVars>>

\* the three tests of radio_irq_process on the local irq_regs, lines 77-92
IrqFlags(irq_regs) ==
    /\ flag_rx_done' = (flag_rx_done \/ "RX_DONE" \in irq_regs)
    /\ flag_rx_crc_error' = (flag_rx_crc_error \/ "CRC_ERROR" \in irq_regs)
    /\ flag_rx_timeout' = (flag_rx_timeout \/ "RX_TIMEOUT" \in irq_regs)

\* radio_irq_process: ral_get_and_clear_irq_status and the tests, lines 75-92.
\* The local irq_regs is declared without a value and the status the call
\* returns is not looked at; the bytes of the register come from spi_transfer
\* (sx126x_hal.c:225-231), which returns its local data_in unset when
\* spi_device_transmit fails (sx126x_hal.c:240-273).  On such a transfer
\* irq_regs holds any bits and the register of the radio keeps its own.
IrqRead ==
    /\ gp_pc = "read"
    /\ \/ /\ IrqFlags(radio_irq)
          /\ radio_irq' = {}
       \/ /\ \E irq_regs \in SUBSET IrqBits : IrqFlags(irq_regs)
          /\ UNCHANGED radio_irq
    /\ gp_crc' = (gp_crc \/ "CRC_ERROR" \in radio_irq)
    /\ gp_pc' = "flags"
    /\ UNCHANGED <<irq_fired, gp_out, gp_quiet, gp_irqs, gp_events, gp_pkts,
                   gp_calls, notRxIrqVars>>

\* the rest of sx126x_radio_get_pkt, lorahub_hal_rx.c:227-275
GetPktReturn ==
    /\ gp_pc = "flags"
    /\ IF flag_rx_done = TRUE \/ flag_rx_crc_error = TRUE
       THEN \/ \* ASSERT_RAL_RC( ral_get_lora_rx_pkt_status ) returns -1
               /\ gp_out' = [gp_out EXCEPT !.ret = -1, !.irq_received = TRUE]
               /\ UNCHANGED <<flag_rx_done, flag_rx_crc_error, flag_rx_timeout,
                              gp_crc, gp_pkts>>
            \/ \* ASSERT_RAL_RC( ral_get_pkt_payload ) returns -1
               /\ flag_rx_crc_error = FALSE
               /\ gp_out' = [gp_out EXCEPT !.ret = -1, !.irq_received = TRUE,
                                           !.status = PktStatus(flag_rx_crc_error)]
               /\ UNCHANGED <<flag_rx_done, flag_rx_crc_error, flag_rx_timeout,
                              gp_crc, gp_pkts>>
            \/ /\ \E sz \in PktSizes :
                     gp_out' = [ret |-> 1,
                                status |-> PktStatus(flag_rx_crc_error),
                                size |-> IF flag_rx_crc_error = TRUE THEN 0 ELSE sz,
                                irq_received |-> TRUE]
               /\ flag_rx_done' = FALSE
               /\ flag_rx_crc_error' = FALSE
               /\ gp_crc' = FALSE
               /\ gp_pkts' = gp_pkts + 1
               /\ UNCHANGED flag_rx_timeout
       ELSE IF flag_rx_timeout = TRUE
       THEN /\ gp_out' = [gp_out EXCEPT !.irq_received = TRUE]
            /\ flag_rx_timeout' = FALSE
            /\ UNCHANGED <<flag_rx_done, flag_rx_crc_error, gp_crc, gp_pkts>>
       ELSE /\ UNCHANGED <<gp_out, flag_rx_done, flag_rx_crc_error, flag_rx_timeout,
                           gp_crc, gp_pkts>>
    /\ gp_pc' = "idle"
    /\ UNCHANGED <<irq_fired, radio_irq, gp_quiet, gp_irqs, gp_events, gp_calls,
                   notRxIrqVars>>

RxIrqNext ==
    \/ radio_on_dio_irq
    \/ GetPktCall \/ IrqTest \/ IrqClear \/ IrqRead \/ GetPktReturn

---------------------------------------------------------------------------
(* Specifications: one per subsystem, the other two left as constructed    *)

RelayIdle ==
    /\ host_big_endian = FALSE
    /\ rl_pc = "idle"
    /\ rl_kind = "none"
    /\ rl_pkt = init_uplink_packet
    /\ rl_packed = NoPacked
    /\ rl_rx = << >>
    /\ rl_src = "none"
    /\ rl_unp_kind = "none"
    /\ rl_unpacked = NoUnpacked

vars == <<relayVars, halVars, jitVars, recvVars, filtVars, genVars, logVars,
         mhdrVars, rxirqVars>>

InitRelay == RelayInit /\ HalIdle /\ JitIdle /\ RecvIdle /\ FiltIdle /\ GenInit /\ LogInit /\ MhdrIdle /\ RxIrqInit

SpecRelay == InitRelay /\ [][RelayNext]_vars

InitSend == RelayIdle /\ HalConfigured /\ JitIdle /\ RecvIdle /\ FiltIdle /\ GenInit /\ LogInit /\ MhdrIdle /\ RxIrqInit

InitTxOff == RelayIdle /\ HalConfiguredTxOff /\ JitIdle /\ RecvIdle /\ FiltIdle /\ GenInit /\ LogInit /\ MhdrIdle /\ RxIrqInit

SpecTxOff == InitTxOff /\ [][HalNext]_vars

InitCtl == RelayIdle /\ HalIdle /\ JitIdle /\ RecvIdle /\ FiltIdle /\ GenInit /\ LogInit /\ MhdrIdle /\ RxIrqInit

SpecCtl == InitCtl /\ [][HalCtlNext]_vars

SpecSend == InitSend /\ [][HalNext]_vars

\* sx126x_send is one sequential function: once called it keeps running, so
\* it takes its next step, whichever of the three it is at
SendRunNext ==
    \/ SendCall \/ SendConfigureTxFails
    \/ SendWait \/ SendSetTx \/ SendPollIrq

InitSendRun == RelayIdle /\ HalRunning /\ JitIdle /\ RecvIdle /\ FiltIdle /\ GenInit /\ LogInit /\ MhdrIdle /\ RxIrqInit

SpecSendFair ==
    /\ InitSendRun /\ [][SendRunNext]_vars
    /\ WF_vars(SendWait \/ SendSetTx \/ SendPollIrq)

InitJit == RelayIdle /\ HalIdle /\ JitInit /\ RecvIdle /\ FiltIdle /\ GenInit /\ LogInit /\ MhdrIdle /\ RxIrqInit

InitRecv == RelayIdle /\ HalIdle /\ JitIdle /\ RecvInit /\ FiltIdle /\ GenInit /\ LogInit /\ MhdrIdle /\ RxIrqInit

SpecRecv == InitRecv /\ [][RecvNext]_vars

\* the threads are scheduled: a worker that can go on does, the sweep runs
SpecRecvFair ==
    /\ InitRecv /\ [][RecvNext]_vars
    /\ WF_vars(RxReclaim)
    /\ WF_vars(WorkerVisit \/ WorkerCopy \/ WorkerEnd)

InitRecvWide == RelayIdle /\ HalIdle /\ JitIdle /\ RecvInitWide /\ FiltIdle /\ GenInit /\ LogInit /\ MhdrIdle /\ RxIrqInit

\* ingest and workers alone: no sweep, no service stopped, no time passing
RecvStampNext == RxIngest \/ WorkerBegin \/ WorkerVisit \/ WorkerCopy \/ WorkerEnd

SpecRecvWide == InitRecvWide /\ [][RecvStampNext]_vars

InitFilt == RelayIdle /\ HalIdle /\ JitIdle /\ RecvIdle /\ FiltInit /\ GenInit /\ LogInit /\ MhdrIdle /\ RxIrqInit

SpecFilt == InitFilt /\ [][FiltNext]_vars

SpecJit == InitJit /\ [][JitNext]_vars

InitMhdr == RelayIdle /\ HalIdle /\ JitIdle /\ RecvIdle /\ FiltIdle /\ GenInit /\ LogInit /\ MhdrInit /\ RxIrqInit

SpecMhdr == InitMhdr /\ [][MhdrNext]_vars

InitRxIrq == RelayIdle /\ HalIdle /\ JitIdle /\ RecvIdle /\ FiltIdle /\ GenInit /\ LogInit /\ MhdrIdle /\ RxIrqInit

SpecRxIrq == InitRxIrq /\ [][RxIrqNext]_vars

InitIds == RelayIdle /\ HalIdle /\ JitIdle /\ RecvIdle /\ FiltIdle /\ GenInit /\ LogInit /\ MhdrIdle /\ RxIrqInit

SpecIds == InitIds /\ [][GenNext]_vars

InitLog == RelayIdle /\ HalIdle /\ JitIdle /\ RecvIdle /\ FiltIdle /\ LogInit /\ GenInit /\ MhdrIdle /\ RxIrqInit

\* the thread is scheduled whenever it can take a step; nothing obliges the
\* rest of the process to push a message or to interrupt the blocked call
SpecLogFair == InitLog /\ [][LogNext]_vars /\ WF_vars(LogThreadStep)

Init == RelayInit /\ HalInit /\ JitInit /\ RecvInitWide /\ FiltInit /\ GenInit /\ LogInit /\ MhdrInit /\ RxIrqInit

Next ==
    \/ RelayNext \/ HalNext \/ HalCtlNext \/ JitNext \/ RecvNext \/ FiltNext
    \/ GenNext \/ LogNext \/ MhdrNext \/ RxIrqNext

Spec == Init /\ [][Next]_vars

---------------------------------------------------------------------------
(* Properties of the relay codec                                           *)

TypeCode(kind) ==
    CASE kind = "uplink" -> UPLINK_TYPE
      [] kind = "downlink" -> DOWNLINK_TYPE
      [] kind = "event" -> EVENT_TYPE
      [] OTHER -> -1

PayloadCap(kind) ==
    IF kind = "event" THEN MAX_EVENT_PAYLOAD_LEN ELSE MAX_PHY_PAYLOAD_LEN

HeaderLen(kind) ==
    CASE kind = "uplink" -> 6
      [] kind = "downlink" -> 12
      [] kind = "event" -> 4
      [] OTHER -> 0

\* pack_X_packet has been applied to rl_pkt
PackDone == rl_kind # "none" /\ rl_pc \in {"rejected", "wire", "unpacked"}

\* unpack_X_packet(kind) has been applied to the bytes pack_X_packet(kind) produced
LoopedBack(kind) ==
    /\ rl_pc = "unpacked" /\ rl_src = "pack"
    /\ rl_kind = kind /\ rl_unp_kind = kind

\* every field of the packet fits the width the wire gives it
InRange(kind, p) ==
    /\ p.meta_type = LORAWAN_TYPE
    /\ p.payload_type = TypeCode(kind)
    /\ p.hop_count <= 7
    /\ p.payload_len <= PayloadCap(kind)
    /\ CASE kind = "uplink" ->
              /\ p.uplink_id <= 4095 /\ p.data_rate <= 15
              /\ p.snr >= -32 /\ p.snr <= 31
         [] kind = "downlink" ->
              /\ p.dwlink_id <= 4095 /\ p.data_rate <= 15
              /\ p.tx_power <= 15 /\ p.delay <= 15
         [] kind = "event" -> p.event_type <= 255
         [] OTHER -> FALSE

SamePrefix(a, b, n) == \A i \in 1..n : a[i] = b[i]

SamePacket(kind, p, q) ==
    /\ q.meta_type = p.meta_type
    /\ q.payload_type = p.payload_type
    /\ q.hop_count = p.hop_count
    /\ q.payload_len = p.payload_len
    /\ CASE kind = "uplink" ->
              /\ q.uplink_id = p.uplink_id /\ q.data_rate = p.data_rate
              /\ q.rssi = p.rssi /\ q.snr = p.snr /\ q.channel = p.channel
              /\ SamePrefix(p.phy_payload, q.phy_payload, p.payload_len)
         [] kind = "downlink" ->
              /\ q.dwlink_id = p.dwlink_id /\ q.data_rate = p.data_rate
              /\ q.frequency = p.frequency /\ q.tx_power = p.tx_power
              /\ q.delay = p.delay /\ q.count_us = p.count_us
              /\ SamePrefix(p.phy_payload, q.phy_payload, p.payload_len)
         [] kind = "event" ->
              /\ q.event_id = p.event_id /\ q.event_type = p.event_type
              /\ SamePrefix(p.event_payload, q.event_payload, p.payload_len)
         [] OTHER -> FALSE

(* C1: relay codec round trip.  For every uplink, downlink or event packet *)
(* whose fields are in range, pack_X_packet succeeds, and unpack_X_packet  *)
(* applied to the bytes it produced returns true with every field and      *)
(* every payload byte equal to the packet's.                               *)
C1_RoundTrip ==
    /\ (PackDone /\ InRange(rl_kind, rl_pkt)) => (rl_packed.ok /\ rl_pc # "rejected")
    /\ \A kind \in {"uplink", "downlink", "event"} :
          (LoopedBack(kind) /\ InRange(kind, rl_pkt)) =>
              (rl_unpacked.ok /\ SamePacket(kind, rl_pkt, rl_unpacked.packet))

\* a downlink packet with a full payload went through pack and unpack on a
\* little-endian host
C1_Witness ==
    /\ LoopedBack("downlink") /\ InRange("downlink", rl_pkt)
    /\ rl_pkt.payload_len = MAX_PHY_PAYLOAD_LEN
    /\ rl_pkt.frequency = W32(258, 772)
    /\ ~host_big_endian
    /\ rl_unpacked.ok

(* C2: pack_downlink_packet writes frequency and count_us each as 4 bytes  *)
(* most-significant byte first, whatever the byte order of the host:       *)
(* frequency at offsets 3..6 and count_us at offsets 8..11 of the buffer.  *)
C2_BigEndianOnWire ==
    (PackDone /\ rl_kind = "downlink" /\ rl_packed.ok) =>
        LET b == rl_packed.buffer
            f == rl_pkt.frequency
            c == rl_pkt.count_us
        IN /\ << b[4], b[5], b[6], b[7] >>
                = << f.hi \div 256, f.hi % 256, f.lo \div 256, f.lo % 256 >>
           /\ << b[9], b[10], b[11], b[12] >>
                = << c.hi \div 256, c.hi % 256, c.lo \div 256, c.lo % 256 >>

(* C3: pack_uplink_packet produces exactly 6 + payload_len bytes: MHDR,    *)
(* uplink_id bits 11..4, uplink_id bits 3..0 with the data rate in the low *)
(* nibble, rssi, snr, channel, then the payload bytes in order; the worked *)
(* example (hop 2, id 0xABC, dr 5, rssi -80, snr 7, channel 3, payload     *)
(* DE AD) encodes to E2 AB C5 B0 07 03 DE AD.                              *)
C3_UplinkLayout ==
    (PackDone /\ rl_kind = "uplink" /\ rl_packed.ok) =>
        LET b == rl_packed.buffer
            p == rl_pkt
        IN /\ Len(b) = 6 + p.payload_len
           /\ rl_packed.out_len = 6 + p.payload_len
           /\ b[1] = 224 + (p.hop_count % 8)
           /\ b[2] = (p.uplink_id \div 16) % 256
           /\ b[3] = (p.uplink_id % 16) * 16 + (p.data_rate % 16)
           /\ b[4] = (IF p.rssi < 0 THEN p.rssi + 256 ELSE p.rssi)
           /\ b[5] = (IF p.snr < 0 THEN p.snr + 256 ELSE p.snr)
           /\ b[6] = p.channel
           /\ \A i \in 1..p.payload_len : b[6 + i] = p.phy_payload[i]
           /\ (/\ p.hop_count = 2 /\ p.uplink_id = 2748 /\ p.data_rate = 5
               /\ p.rssi = -80 /\ p.snr = 7 /\ p.channel = 3 /\ p.payload_len = 2)
              => b = << 226, 171, 197, 176, 7, 3, 222, 173 >>

\* the worked example has been packed
C3_Witness ==
    /\ PackDone /\ rl_kind = "uplink" /\ rl_packed.ok
    /\ rl_pkt.hop_count = 2 /\ rl_pkt.uplink_id = 2748 /\ rl_pkt.data_rate = 5
    /\ rl_pkt.rssi = -80 /\ rl_pkt.snr = 7 /\ rl_pkt.channel = 3
    /\ rl_pkt.payload_len = 2
    /\ rl_packed.buffer[7] = 222

(* C4: discriminators are enforced on both sides.  pack_X_packet returns   *)
(* NULL when meta_type is not 0b111 or payload_type is not the kind X;     *)
(* unpack_X_packet returns false when MHDR bits 7..5 are not 0b111 or bits *)
(* 4..3 are not the code of X.                                             *)
C4_Discriminators ==
    /\ (PackDone /\ (rl_pkt.meta_type # 7 \/ rl_pkt.payload_type # TypeCode(rl_kind)))
          => (~rl_packed.ok /\ rl_pc = "rejected")
    /\ (rl_pc = "unpacked" /\ Len(rl_rx) >= 1
          /\ (rl_rx[1] \div 32 # 7 \/ (rl_rx[1] \div 8) % 4 # TypeCode(rl_unp_kind)))
          => ~rl_unpacked.ok

\* a well-formed frame whose type bits are 0b10 was handed to the event decoder,
\* which has no other reason to reject it
C4_Witness ==
    /\ rl_pc = "unpacked" /\ rl_src = "raw" /\ rl_unp_kind = "event"
    /\ Len(rl_rx) = 12 /\ rl_rx[1] = 242
    /\ ~rl_unpacked.ok

(* C5: payload caps.  With the discriminators right, pack_uplink_packet    *)
(* and pack_downlink_packet succeed exactly when payload_len <= 245 and    *)
(* pack_event_packet exactly when payload_len <= 240; an accepted packet   *)
(* yields out_len = header length (6, 12 or 4) + payload_len.              *)
C5_PayloadCaps ==
    (PackDone /\ rl_pkt.meta_type = 7 /\ rl_pkt.payload_type = TypeCode(rl_kind)) =>
        /\ rl_packed.ok <=> (rl_pkt.payload_len <= (IF rl_kind = "event" THEN 240 ELSE 245))
        /\ rl_packed.ok =>
              /\ rl_packed.out_len = HeaderLen(rl_kind) + rl_pkt.payload_len
              /\ Len(rl_packed.buffer) = rl_packed.out_len

\* an event packet one byte over its cap has been refused
C5_Witness ==
    /\ PackDone /\ rl_kind = "event"
    /\ rl_pkt.meta_type = 7 /\ rl_pkt.payload_type = EVENT_TYPE
    /\ rl_pkt.payload_len = 241
    /\ rl_pc = "rejected"

(* C6: unpack_uplink_packet returns false for every input whose snr byte,  *)
(* read as a signed 8-bit value, is below -32 or above 31, and accepts an  *)
(* otherwise well-formed frame whose snr is -32 or 31.                     *)
C6_SnrRange ==
    (rl_pc = "unpacked" /\ rl_unp_kind = "uplink" /\ Len(rl_rx) >= 5) =>
        LET snr == IF rl_rx[5] >= 128 THEN rl_rx[5] - 256 ELSE rl_rx[5]
        IN /\ (snr < -32 \/ snr > 31) => ~rl_unpacked.ok
           /\ (/\ snr \in {-32, 31}
               /\ Len(rl_rx) >= 6 /\ Len(rl_rx) <= 6 + 245
               /\ rl_rx[1] \div 8 = 28)
              => (rl_unpacked.ok /\ rl_unpacked.packet.snr = snr)

\* an uplink frame that is well formed but for an snr byte of -33 was refused
C6_Witness ==
    /\ rl_pc = "unpacked" /\ rl_unp_kind = "uplink" /\ rl_src = "raw"
    /\ Len(rl_rx) = 6 /\ rl_rx[1] = 226 /\ rl_rx[5] = 223
    /\ ~rl_unpacked.ok

---------------------------------------------------------------------------
(* Properties of the JIT queue and of the wait for the target time         *)

JitIsBeacon(e) == e.class = "BEACON"

JitTargetsOf(queue) == [i \in 1..Len(queue) |-> queue[i].target]

\* entries in order of target
JitSorted(queue) ==
    \A i, j \in 1..Len(queue) :
        i < j => JitDiff(queue[j].target, queue[i].target) >= 0

\* no two non-beacon entries closer than MIN_GAP_MICROSECONDS
JitNoOverlap(queue) ==
    \A i, j \in 1..Len(queue) :
        (i < j /\ ~JitIsBeacon(queue[i]) /\ ~JitIsBeacon(queue[j]))
            => ~JitOverlap(queue[i], queue[j], queue[i].target)

\* the last operation was an enqueue of a job that passes every check made
\* before the collision checks
JitEnqueuePassedEarlyChecks ==
    /\ jit_last.op = "enqueue"
    /\ jit_last.job.check = "ok"
    /\ Len(jit_last.before) < JitQueueMax
    /\ JitDiff(jit_last.job.target, jit_now) <= MAX_SCHEDULE_HORIZON
    /\ JitDiff(jit_last.job.target, jit_now) >= MIN_PREPARE_MARGIN + tx_start_delay

JitHitsPacket ==
    \E i \in 1..Len(jit_last.before) :
        /\ ~JitIsBeacon(jit_last.before[i])
        /\ JitOverlap(jit_last.job, jit_last.before[i], jit_now)

SendAcrossWrap ==
    /\ snd_pc \in {"wait", "set_tx"}
    /\ snd_waits > 0
    /\ snd_pkt.count_us = W32(0, 256)
    /\ count_us_now = W32(65535, 65280)

(* C8: across the wrap of the 32-bit counter the signed difference         *)
(* target - now decides: a target of 0x00000100 read at now = 0xFFFFFF00   *)
(* is 512 microseconds in the future, never in the past, and the wait      *)
(* loop of sx126x_send goes on exactly while 512 exceeds the TCXO startup  *)
(* time.                                                                   *)
C8_WrapIsFuture ==
    SendAcrossWrap
        => /\ snd_diff = 512
           /\ snd_diff > 0
           /\ (snd_pc = "wait") <=>
                 (snd_diff > TCXO_STARTUP_TIME_US(tcxo_startup_time_in_tick,
                                                  SX126X_RTC_FREQ_IN_HZ))

C8_Witness ==
    /\ SendAcrossWrap
    /\ snd_pc = "wait"
    /\ tcxo_startup_time_in_tick = 32
    /\ snd_diff > 0

\* C8 as stated: the same target is 256 microseconds in the future
C8_WrapIs256 ==
    SendAcrossWrap => (snd_diff = 256 /\ snd_diff > 0)

\* the last operation was an enqueue, with valid parameters, into an empty queue
JitEnqueueIntoEmpty ==
    /\ jit_last.op = "enqueue"
    /\ jit_last.job.check = "ok"
    /\ jit_last.before = << >>

OrderingTargets == << U32ofNat(500000), U32ofNat(1000000), U32ofNat(2000000) >>

OrderingTargetSet == {OrderingTargets[i] : i \in 1..3}

JitQueueHeldLongJob ==
    /\ jit_last.op = "enqueue"
    /\ Len(jit_last.before) = 1
    /\ jit_last.before[1].target = U32ofNat(1000000)
    /\ jit_last.before[1].duration = 20000
    /\ ~JitIsBeacon(jit_last.before[1])

---------------------------------------------------------------------------
(* Reception list: delivery, stamps, reclamation, capacity, order          *)

RecvIds == 1..MaxIngest

RecvListed(id) == \E i \in 1..Len(rx_list) : rx_list[i].id = id

\* what a service has taken so far: emitted, then snapshotted in this walk
Received(sv) == fwd[sv] \o wk[sv].snap

CountOf(seq, id) == Cardinality({i \in 1..Len(seq) : seq[i].id = id})

\* the worker of sv has stamped the batch under its cursor and not yet copied it
CopyPending(sv, id) ==
    /\ wk[sv].pc = "copy"
    /\ rx_list[Cursor(sv)].id = id

(* C12: for every batch B and every enabled service S, S receives all of   *)
(* B's packets exactly once or B is dropped whole; S never receives B      *)
(* twice.  Here: a service holds at most one snapshot of a batch, the      *)
(* snapshot has all the packets of the batch, and a listed batch carries   *)
(* the stamp of S exactly when S holds its snapshot or is about to copy it *)
C12_ExactlyOnceOrDropped ==
    \A sv \in Services :
       /\ \A id \in RecvIds : CountOf(Received(sv), id) <= 1
       /\ \A k \in 1..Len(Received(sv)) :
             Received(sv)[k].nb_pkt = NbPktOf(Received(sv)[k].id)
       /\ \A i \in 1..Len(rx_list) :
             HasStamp(rx_list[i].stamps, serv[sv].stamp)
                <=> (CountOf(Received(sv), rx_list[i].id) = 1
                     \/ CopyPending(sv, rx_list[i].id))

\* service 1 got two batches once each; service 2 never got batch 1, which
\* has left the list
C12_Witness ==
    /\ CountOf(fwd[1], 1) = 1 /\ CountOf(fwd[1], 2) = 1
    /\ fwd[1][1].nb_pkt + fwd[1][2].nb_pkt = 3
    /\ CountOf(Received(2), 1) = 0
    /\ ~RecvListed(1)
    /\ serv[2].enabled

StampBits(stamps) == {p \in 0..(STAMPS_WIDTH - 1) : HasStamp(stamps, p)}

\* every batch that stays in the list keeps the bits it has
StampsOnlyGain ==
    \A i \in 1..Len(rx_list) : \A j \in 1..Len(rx_list') :
        rx_list[i].id = rx_list'[j].id
           => StampBits(rx_list[i].stamps) \subseteq StampBits(rx_list'[j].stamps)

\* a worker that is to copy a batch holds the mutex and has set its bit
StampedBeforeCopy ==
    \A sv \in Services :
        wk[sv].pc = "copy"
           => /\ rx_lock = sv
              /\ HasStamp(rx_list[Cursor(sv)].stamps, serv[sv].stamp)

(* C13: within the lifetime of a batch a stamp bit only changes from 0 to  *)
(* 1, and a worker sets its bit, in one step under the list mutex, before  *)
(* it copies the batch; in every interleaving of the workers, RX ingest    *)
(* and the reclaimer                                                       *)
C13_StampMonotone == []StampedBeforeCopy /\ [][StampsOnlyGain]_vars

\* the second worker has just stamped a batch the first had stamped already
C13_Witness ==
    \E sv \in Services :
        /\ wk[sv].pc = "copy"
        /\ StampBits(rx_list[Cursor(sv)].stamps) = {serv[t].stamp : t \in Services}
        /\ rx_seq >= 2

\* the services whose stamp position lies inside the given number of bits
StampedWithin(width) == {sv \in Services : serv[sv].stamp < width}

\* each service of the set has a bit of its own in the bitmap of a batch,
\* and finds it set once it has stamped a batch
DistinctBits(svs) ==
    /\ \A a \in svs : StampMask(serv[a].stamp) # 0
    /\ \A a, b \in svs :
          serv[a].stamp # serv[b].stamp
             => StampMask(serv[a].stamp) # StampMask(serv[b].stamp)
    /\ \A a \in svs :
          wk[a].pc = "copy" => HasStamp(rx_list[Cursor(a)].stamps, serv[a].stamp)

StampsUniqueStable ==
    /\ \A a \in Services : serv[a].stamp \in 0..63
    /\ \A a, b \in Services : a # b => serv[a].stamp # serv[b].stamp

CoveredOrStale(b) ==
    \/ \A sv \in Services : serv[sv].enabled => HasStamp(b.stamps, serv[sv].stamp)
    \/ rx_now - b.entry > RECV_STALE_MS

\* a step that publishes nothing removes only batches that may go
ReclaimOnlyCoveredOrStale ==
    rx_seq' = rx_seq
       => \A i \in 1..Len(rx_list) :
             (\A j \in 1..Len(rx_list') : rx_list'[j].id # rx_list[i].id)
                => CoveredOrStale(rx_list[i])

\* a batch stays covered or stale once it is (bits are only set, services
\* only stopped, time only passes), so all such batches have gone when the
\* list holds none
ListedCoveredOrStale ==
    \E i \in 1..Len(rx_list) : CoveredOrStale(rx_list[i])

(* C15: the reclaimer removes a batch only if the bits of all currently    *)
(* enabled services are set in it or its age exceeds RECV_STALE_MS, and    *)
(* every such batch is eventually removed from the list                    *)
C15_Reclamation ==
    /\ [][ReclaimOnlyCoveredOrStale]_vars
    /\ ListedCoveredOrStale ~> ~ListedCoveredOrStale

\* no batch was dropped by ingest; the sweep has removed one batch that an
\* enabled service never took, and one that every service took
C15_Witness ==
    /\ rx_drops = 0
    /\ \E id \in 1..rx_seq :
          /\ ~RecvListed(id)
          /\ \E sv \in Services : serv[sv].enabled /\ CountOf(Received(sv), id) = 0
    /\ \E id \in 1..rx_seq :
          /\ ~RecvListed(id)
          /\ \A sv \in Services : CountOf(Received(sv), id) = 1

ListedIds(list) == {list[i].id : i \in 1..Len(list)}

\* the batch that arrived first among those listed
OldestId(list) == CHOOSE id \in ListedIds(list) : \A o \in ListedIds(list) : id <= o

\* a publish into a full list drops the oldest batch and counts the drop;
\* a publish into a list with room drops nothing
PublishDropsOldest ==
    rx_seq' = rx_seq + 1
       => IF Len(rx_list) = RECV_LIST_MAX
          THEN /\ ListedIds(rx_list') =
                     (ListedIds(rx_list) \ {OldestId(rx_list)}) \cup {rx_seq'}
               /\ rx_drops' = rx_drops + 1
          ELSE /\ ListedIds(rx_list') = ListedIds(rx_list) \cup {rx_seq'}
               /\ rx_drops' = rx_drops

(* C16: the reception list never holds more than RECV_LIST_MAX batches;    *)
(* publishing into a full list removes the oldest batch and adds one to    *)
(* the drop counter                                                        *)
C16_Capacity ==
    /\ [](Len(rx_list) <= RECV_LIST_MAX /\ Cardinality(ListedIds(rx_list)) = Len(rx_list))
    /\ [][PublishDropsOldest]_vars

\* the list was full of the first batches when one more was published
C16_Witness ==
    /\ rx_seq = RECV_LIST_MAX + 1
    /\ rx_drops = 1
    /\ ListedIds(rx_list) = 2..rx_seq
    /\ rx_list[1].id = rx_seq

IdsOf(seq) == [k \in 1..Len(seq) |-> seq[k].id]

Ascending(ids) == \A i, j \in 1..Len(ids) : i < j => ids[i] < ids[j]

Descending(ids) == \A i, j \in 1..Len(ids) : i < j => ids[i] > ids[j]

\* the batches taken in the walk under way arrived after all those emitted
\* before, and are held newest first
WalkAfterEmitted(sv) ==
    /\ Descending(IdsOf(wk[sv].snap))
    /\ \A k \in 1..Len(wk[sv].snap) : \A m \in 1..Len(fwd[sv]) :
          wk[sv].snap[k].id > fwd[sv][m].id

\* what a service emits is what its walk has taken, in the order taken
EmitsWalk ==
    \A sv \in Services : fwd'[sv] = fwd[sv] \/ fwd'[sv] = fwd[sv] \o wk[sv].snap

---------------------------------------------------------------------------
(* Filter engine                                                           *)

\* the fields of the packet that the decode gave a value for
FilterDecoded == {f \in FilterFields : flt_pkt[f] # NoValue}

(* C18: filter semantics.  A packet that no filter looks at is not         *)
(* dropped; a packet the engine passes has, for every decoded field, a     *)
(* listed value where the mode is Include and an unlisted one where the    *)
(* mode is Exclude (logical AND over the enabled filters)                  *)
C18_FilterSemantics ==
    flt_pc = "done"
       => /\ (\A f \in FilterFields : flt_mode[f] = NOFILTER) => flt_pass
          /\ flt_pass
                => \A f \in FilterDecoded :
                      /\ flt_mode[f] = INCLUDE => FilterListed(f, flt_pkt[f])
                      /\ flt_mode[f] = EXCLUDE => ~FilterListed(f, flt_pkt[f])

---------------------------------------------------------------------------
(* SX126x HAL: configuration, and the calls on a stopped concentrator     *)

\* a setconf call made on the running concentrator has returned an error
SetconfRefusedWhileStarted ==
    (is_started = TRUE /\ ctl_ret.fn \in {"rxrf_setconf", "rxif_setconf"})
       => ctl_ret.ret = LGW_HAL_ERROR

\* no step taken on the running concentrator changes the stored configuration
ConfKeptWhileStarted ==
    is_started = TRUE => (rxrf_conf' = rxrf_conf /\ rxif_conf' = rxif_conf)

(* C19: the radio and modulation configuration changes only before start:  *)
(* while the concentrator is started, sx126x_rxrf_setconf and              *)
(* sx126x_rxif_setconf return LGW_HAL_ERROR and the stored configuration   *)
(* stays as it is, in any sequence of setconf, start and stop calls        *)
C19_SetconfOnlyBeforeStart ==
    /\ []SetconfRefusedWhileStarted
    /\ [][ConfKeptWhileStarted]_vars

\* started again after a stop and a change of configuration, then refused
C19_Witness ==
    /\ is_started = TRUE
    /\ ctl_ret = Returned("rxif_setconf", LGW_HAL_ERROR)
    /\ rxif_conf.datarate = << DR_LORA_SF12, DR_LORA_SF7 >>
    /\ rxrf_conf.freq_hz = 868300000

\* what the last call left behind on a stopped concentrator
StoppedCallsFail ==
    is_started = FALSE
       => /\ ctl_ret.fn = "receive"
                => (ctl_ret.ret = LGW_HAL_ERROR /\ radio_used = FALSE)
          /\ (ctl_ret.fn = "status" /\ ctl_ret.ret = LGW_HAL_SUCCESS)
                => ctl_ret.code = (IF ctl_ret.select = TX_STATUS THEN TX_OFF ELSE RX_OFF)
          /\ ctl_ret.fn = "stop" => ctl_ret.ret = LGW_HAL_SUCCESS

\* a receive or a send on a stopped concentrator: error, no radio, statuses kept
StoppedCallsTouchNothing ==
    /\ (is_started = FALSE /\ snd_calls' # snd_calls)
          => /\ snd_ret' = LGW_HAL_ERROR
             /\ radio_used' = FALSE
             /\ UNCHANGED <<rx_status, tx_status, is_started>>
    /\ (is_started = FALSE /\ ctl_ret'.fn = "receive")
          => UNCHANGED <<rx_status, tx_status, is_started>>

(* C20: whenever the concentrator is not started, sx126x_receive and       *)
(* sx126x_send return LGW_HAL_ERROR without going to the radio or changing *)
(* the RX and TX status, sx126x_status reports TX_OFF and RX_OFF whatever  *)
(* happened before, and sx126x_stop returns LGW_HAL_SUCCESS                *)
C20_StoppedConcentrator ==
    /\ []StoppedCallsFail
    /\ [][StoppedCallsTouchNothing]_vars

\* stopped after a start that left RX_ON and TX_FREE: the status call
\* reports RX_OFF
C20_Witness ==
    /\ is_started = FALSE
    /\ rx_status = RX_ON /\ tx_status = TX_FREE
    /\ ctl_ret.fn = "status" /\ ctl_ret.ret = LGW_HAL_SUCCESS
    /\ ctl_ret.select = RX_STATUS /\ ctl_ret.code = RX_OFF

(* C21: sx126x_receive fetches up to max_pkt packets: whatever max_pkt is, *)
(* 0 included, its return value is never above max_pkt and it writes no    *)
(* element of pkt_data at an index of max_pkt or more                      *)
C21_ReceiveWithinMaxPkt ==
    ctl_ret.fn = "receive"
       => /\ ctl_ret.ret <= ctl_ret.max_pkt
          /\ \A i \in ctl_ret.written : i < ctl_ret.max_pkt

(* C22: with tx_enable = false in the radio configuration the TX modem of  *)
(* the started concentrator is disabled and ignores commands: no sequence  *)
(* of sx126x_send calls transmits a packet or moves the reported TX status *)
(* away from TX_OFF                                                        *)
C22_TxDisabledStaysOff ==
    (is_started = TRUE /\ rxrf_conf.tx_enable = FALSE)
       => /\ StatusCode(TX_STATUS, is_started, tx_status, rx_status) = TX_OFF
          /\ snd_pc \notin {"wait", "set_tx", "irq_wait"}

(* C23: in immediate mode the packet is emitted as soon as possible: a     *)
(* send with tx_mode = IMMEDIATE goes on to the transmission without       *)
(* waiting for the counter to reach the count_us of the packet, whatever   *)
(* that field and the counter hold; it is never found in the wait loop     *)
(* after a pass that left the target too far ahead                         *)
C23_ImmediateDoesNotWait ==
    (snd_pkt.tx_mode = IMMEDIATE /\ snd_pc = "wait") => snd_waits = 0


(* C24: with any number of calls to generate_uplink_id and                 *)
(* generate_dwlink_id from any number of threads, every returned id lies   *)
(* in 0..4095 and srand is performed exactly once in the process, before   *)
(* the first id is returned.                                               *)
C24_IdsSeededOnce ==
    /\ \A t \in Threads : gen_id[t] = NoId \/ gen_id[t] \in 0..4095
    /\ Cardinality({i \in DOMAIN gen_log : gen_log[i] = "srand"}) <= 1
    /\ gen_log # << >> => gen_log[1] = "srand"

(* C25: once EXIT_SIGNAL is set, log_pull_thread eventually leaves its     *)
(* receive loop, closes its socket and returns, also when no further log   *)
(* message is pushed.                                                      *)
C25_LoggerShutsDown ==
    EXIT_SIGNAL ~> (log_pc = "returned" /\ log_sock # "open")


(* C26: sx126x_start returns LGW_HAL_ERROR without touching the radio      *)
(* unless a nonzero RX frequency and a defined modulation, bandwidth,      *)
(* coderate and first datarate are configured; when it returns             *)
(* LGW_HAL_SUCCESS the concentrator is started, the RX status is RX_ON and *)
(* the TX status is TX_FREE if tx_enable is set and TX_OFF otherwise.      *)
C26_StartStep == ctl_ret'.fn = "start" /\ snd_calls' = snd_calls

C26_StartContract ==
    [][C26_StartStep =>
         /\ ctl_ret'.ret \in {LGW_HAL_SUCCESS, LGW_HAL_ERROR}
         /\ ( \/ rxrf_conf.freq_hz = 0
              \/ rxif_conf.modulation = MOD_UNDEFINED
              \/ rxif_conf.bandwidth = BW_UNDEFINED
              \/ rxif_conf.coderate = CR_UNDEFINED
              \/ rxif_conf.datarate[1] = DR_UNDEFINED )
            => /\ ctl_ret'.ret = LGW_HAL_ERROR
               /\ radio_used' = FALSE
               /\ UNCHANGED <<is_started, rx_status, tx_status>>
         /\ ctl_ret'.ret = LGW_HAL_SUCCESS
            => /\ is_started' = TRUE
               /\ rx_status' = RX_ON
               /\ rxrf_conf.tx_enable = TRUE => tx_status' = TX_FREE
               /\ rxrf_conf.tx_enable = FALSE => tx_status' = TX_OFF
    ]_vars

C26_Witness ==
    /\ ctl_ret.fn = "start" /\ ctl_ret.ret = LGW_HAL_SUCCESS /\ snd_calls = 0
    /\ rxrf_conf.tx_enable = FALSE
    /\ is_started = TRUE /\ rx_status = RX_ON /\ tx_status = TX_OFF


(* C27: whenever sx126x_send returns on a started concentrator, with       *)
(* LGW_HAL_SUCCESS or with LGW_HAL_ERROR and whichever radio call failed,  *)
(* the reported RX status is RX_ON (not RX_SUSPENDED) and the reported TX  *)
(* status is neither TX_SCHEDULED nor TX_EMITTING.                         *)
C27_SendReturns ==
    /\ snd_pc' = "idle"
    /\ snd_pc # "idle" \/ snd_calls' # snd_calls
    /\ is_started = TRUE

C27_StatusAfterSend ==
    [][C27_SendReturns =>
         /\ StatusCode(RX_STATUS, is_started', tx_status', rx_status') = RX_ON
         /\ StatusCode(TX_STATUS, is_started', tx_status', rx_status')
               \notin {TX_SCHEDULED, TX_EMITTING}
    ]_vars


(* C29: sx126x_send on a started concentrator terminates, provided the     *)
(* counter keeps advancing and the radio eventually raises TX_DONE or a    *)
(* timeout; it returns LGW_HAL_SUCCESS exactly when the wait-for-TX_DONE   *)
(* loop ended without a timeout interrupt having been observed.            *)
C29_SendRunning == snd_pc \in {"wait", "set_tx", "irq_wait"}

C29_LoopEndedNoTimeout ==
    /\ snd_pc = "irq_wait"
    /\ snd_flags'.tx_done \/ snd_flags'.tx_timeout
    /\ snd_flags'.tx_timeout = FALSE

\* the model follows the wait for the target for MaxWaitIters iterations
C29_WaitHorizon == snd_pc = "wait" /\ snd_waits = MaxWaitIters

\* an iteration that stays in the wait loop finds the target nearer than
\* the one before, and still ahead: the loop cannot go round for ever
C29_WaitDecreases ==
    (snd_pc = "wait" /\ snd_pc' = "wait" /\ snd_waits >= 1)
       => (snd_diff' < snd_diff /\ snd_diff' > 0)

C29_SendTerminates ==
    /\ C29_SendRunning ~> (snd_pc = "idle" \/ C29_WaitHorizon)
    /\ [][C29_WaitDecreases]_vars
    /\ [][ ( /\ snd_pc' = "idle"
             /\ snd_pc # "idle" \/ snd_calls' # snd_calls
             /\ is_started = TRUE )
           => (snd_ret' = LGW_HAL_SUCCESS <=> C29_LoopEndedNoTimeout) ]_vars

C29_Witness ==
    /\ snd_pc = "idle" /\ snd_calls > 0 /\ is_started = TRUE
    /\ snd_waits > 1
    /\ snd_flags = [tx_done |-> TRUE, tx_timeout |-> FALSE]
    /\ snd_ret = LGW_HAL_SUCCESS


(* C28: if sx126x_start returns LGW_HAL_ERROR, the concentrator is not     *)
(* started afterwards (a following receive or send is refused and the RX   *)
(* status is reported as RX_OFF), also when sx126x_start was called on a   *)
(* concentrator that was already started.                                  *)
C28_FailedStartNotStarted ==
    [][ ( /\ ctl_ret'.fn = "start" /\ snd_calls' = snd_calls
          /\ ctl_ret'.ret = LGW_HAL_ERROR )
        => /\ is_started' = FALSE
           /\ StatusCode(RX_STATUS, is_started', tx_status', rx_status') = RX_OFF
    ]_vars


(* C30: every modulation configuration accepted by sx126x_rxif_setconf is  *)
(* also accepted by the parameter check sx126x_start performs through      *)
(* sx126x_radio_configure_rx: sx126x_start never fails because of the      *)
(* bandwidth or the coderate of a configuration that setconf accepted.     *)
C30_StartAcceptsSetconfParams ==
    [][ ( /\ ctl_ret'.fn = "start" /\ snd_calls' = snd_calls
          /\ IS_LORA_BW(rxif_conf.bandwidth)
          /\ IS_LORA_CR(rxif_conf.coderate) )
        => ~ ( /\ "refused" \in DOMAIN ctl_ret'
               /\ ctl_ret'.refused \in {"bandwidth", "coderate"} )
    ]_vars


(* C32: the encoder never emits a frame its own decoder rejects.  Every    *)
(* byte string that pack_uplink_packet, pack_downlink_packet or            *)
(* pack_event_packet returns (non-NULL), for any input packet whatsoever,  *)
(* is accepted by the matching unpack function.                            *)
C32_PackedIsAccepted ==
    ( /\ rl_pc = "unpacked"
      /\ rl_src = "pack" /\ rl_packed.ok /\ rl_rx = rl_packed.buffer
      /\ rl_unp_kind = rl_kind )
       => rl_unpacked.ok


\* the verdict of unpack_X_packet on the bytes on the wire
C33_Accepts(kind) ==
    CASE kind = "uplink"   -> unpack_uplink_packet(rl_rx, init_uplink_packet).ok
      [] kind = "downlink" -> unpack_downlink_packet(rl_rx, init_downlink_packet).ok
      [] kind = "event"    -> unpack_event_packet(rl_rx, init_event_packet).ok

(* C33: the three decoders are mutually exclusive.  For every byte string  *)
(* at most one of unpack_uplink_packet, unpack_downlink_packet and         *)
(* unpack_event_packet returns true, and a string whose MHDR payload-type  *)
(* bits are 0b10 or whose meta-type bits are not 0b111 is rejected by all  *)
(* three.                                                                  *)
C33_DecodersExclusive ==
    rl_pc = "unpacked" =>
        /\ rl_unpacked.ok = C33_Accepts(rl_unp_kind)
        /\ Cardinality({k \in {"uplink", "downlink", "event"} : C33_Accepts(k)}) <= 1
        /\ ( /\ Len(rl_rx) >= 1
             /\ \/ (rl_rx[1] \div 8) % 4 = 2
                \/ rl_rx[1] \div 32 # 7 )
           => \A k \in {"uplink", "downlink", "event"} : ~C33_Accepts(k)

\* a 12-byte frame with the EVENT type bits is accepted by the event decoder
\* and by neither of the other two
C33_Witness ==
    /\ rl_pc = "unpacked" /\ rl_src = "raw" /\ rl_unp_kind = "event"
    /\ Len(rl_rx) = 12 /\ rl_rx[1] = 250
    /\ rl_unpacked.ok
    /\ ~C33_Accepts("uplink") /\ ~C33_Accepts("downlink")


(* C34: build_mhdr and parse_mhdr are inverse on the 8-bit header, with    *)
(* meta-type in bits 7..5, payload-type in bits 4..3 and hop-count in bits *)
(* 2..0.  For every byte b, build_mhdr applied to the three fields         *)
(* parse_mhdr extracts from b gives b again; for all inputs,               *)
(* parse_mhdr(build_mhdr(m, p, h)) yields (m mod 8, p mod 4, h mod 8).     *)
C34_MhdrInverse ==
    /\ mh_pc = "rebuilt" =>
          /\ mh_fields.meta_type = mh_byte \div 32
          /\ mh_fields.payload_type = (mh_byte \div 8) % 4
          /\ mh_fields.hop_count = mh_byte % 8
          /\ mh_built = mh_byte
    /\ mh_pc = "reparsed" =>
          /\ mh_built \in 0..255
          /\ mh_fields.meta_type = mh_args.meta_type % 8
          /\ mh_fields.payload_type = mh_args.payload_type % 4
          /\ mh_fields.hop_count = mh_args.hop_count % 8

\* fields beyond their widths were built into a header and parsed back
C34_Witness ==
    /\ mh_pc = "reparsed"
    /\ mh_args = [meta_type |-> 15, payload_type |-> 7, hop_count |-> 255]
    /\ mh_built = 255
    /\ mh_fields = [meta_type |-> 7, payload_type |-> 3, hop_count |-> 7]


(* C31: over any interleaving of the DIO interrupt handler and             *)
(* sx126x_radio_get_pkt calls, each RX_DONE / CRC_ERROR interrupt is       *)
(* reported as at most one packet: after a call returns 1 the rx_done and  *)
(* crc_error flags are clear and a further call without a new interrupt    *)
(* returns 0; a packet announced with a CRC error is reported with status  *)
(* STAT_CRC_BAD and size 0.                                                *)
C31_GetPktReturns == gp_pc = "flags" /\ gp_pc' = "idle"

C31_OnePacketPerInterrupt ==
    [][C31_GetPktReturns =>
         /\ gp_pkts' <= gp_irqs'
         /\ gp_out'.ret = 1 => (flag_rx_done' = FALSE /\ flag_rx_crc_error' = FALSE)
         /\ gp_quiet => gp_out'.ret = 0
         /\ (gp_out'.ret = 1 /\ gp_crc)
               => (gp_out'.status = STAT_CRC_BAD /\ gp_out'.size = 0)
    ]_vars

===========================================================================
